---- MODULE Spec2Model ----
(***************************************************************************)
(* A model of langchaingo-graphs: the in-memory GraphDocument              *)
(* (graphs package), the Neo4j store's write paths (AddNodes,              *)
(* AddRelationships, UpdateNode, UpdateRelationship, AddGraphDocument) as  *)
(* the Cypher they send, and the schema cache behind schemaMux.            *)
(*                                                                         *)
(* The specifications that share the module:                               *)
(*   DocSpec      the in-memory GraphDocument and its methods              *)
(*   Spec         the Neo4j store and the write paths of the Merge Engine  *)
(*   ImportSpec   one AddGraphDocument call on the Neo4j store             *)
(*   RefreshSpec  RefreshSchema callers and the changing database          *)
(*   SchemaSpec   RefreshSpec and a reader of the two schema getters       *)
(*   TxSpec       AddGraphDocumentWithTransaction                          *)
(*   RemoveSpec   the GraphDocument removal methods                        *)
(*   SourceSpec   AddGraphDocument with IncludeSource                      *)
(*   SanitizeSpec valueSanitize on a query result value                    *)
(*   QuerySpec    one Neo4j.Query call                                     *)
(*   JsonSpec     a GraphDocument through ToJSON and FromJSON              *)
(*   CloneSpec    a GraphDocument, its Clone and mutations of either       *)
(*   ReadSpec     the same writes with and without base entity labelling,  *)
(*                and the paginated reads                                  *)
(*   FormatSpec   formatEnhancedProperty on one property                   *)
(*   SchemaMapSpec the structured schema maps handed to callers            *)
(* Each leaves the variables of the others at their initial value.         *)
(***************************************************************************)
EXTENDS Integers, Sequences, FiniteSets, TLC

VARIABLES
    gd,        \* the GraphDocument: [Nodes, Relationships]
    docLast,   \* the last GraphDocument method call: its arguments, result and the document before it
    docOps,    \* number of GraphDocument method calls made
    store,     \* the Neo4j database: [nodes, rels, constraint, nextId]
    baseEntityLabel,  \* Neo4j.baseEntityLabel (WithBaseEntityLabel)
    stLast,    \* the last store call: its arguments, error and the database before it
    stOps,     \* number of store calls made
    driver,    \* whether Neo4j.driver is set
    enhancedSchema,    \* Neo4j.enhancedSchema (WithEnhancedSchema)
    schemaMux, \* the refresher that holds schemaMux for writing, or "none"
    schemaCache,       \* Neo4j.schemaCache
    structuredSchema,  \* Neo4j.structuredSchema
    db,        \* what the metadata queries of RefreshSchema report now
    refresh,   \* per refresher: where its RefreshSchema call stands, its locals and result
    reader,    \* the reading goroutine: its two reads
    tm,        \* the AddGraphDocumentWithTransaction call: its context, transaction and position
    qc,        \* the Neo4j.Query call: the options of the store, its position and result
    san,       \* a value, and valueSanitize applied to it once and twice
    js,        \* a GraphDocument, its ToJSON and the FromJSON of that
    cl,        \* a GraphDocument and its clone on a heap of property maps
    rd,        \* a read on the Neo4j store: its arguments and result
    fp,        \* a property of the enhanced schema and its rendering
    sm         \* the structured schema maps on a heap: the store's, a refresh's, the callers'

docVars == <<gd, docLast, docOps>>

storeVars == <<store, baseEntityLabel, stLast, stOps>>

schemaVars == <<driver, enhancedSchema, schemaMux, schemaCache, structuredSchema, db, refresh, reader>>

txVars == <<tm>>

moreVars == <<cl, rd, fp, sm>>

callVars == <<qc, san, js, cl, rd, fp, sm>>

vars == <<gd, docLast, docOps, store, baseEntityLabel, stLast, stOps,
          driver, enhancedSchema, schemaMux, schemaCache, structuredSchema, db, refresh,
          reader, tm, qc, san, js, cl, rd, fp, sm>>

(***************************************************************************)
(* Bounds and input domains                                                *)
(***************************************************************************)
MaxDocNodes == 3
MaxDocRels == 2
MaxDocOps == 4
MaxStoreOps == 2

NodeIDs == {"1", "2"}
Types == {"Person", "Company"}
RelTypes == {"KNOWS", "LIKES"}

\* A property map is a function from its keys to values; the empty map has no key.
EmptyProps == [k \in {} |-> ""]
PropsA1 == [k \in {"a"} |-> "1"]
PropsA2 == [k \in {"a"} |-> "2"]
PropsB2 == [k \in {"b"} |-> "2"]

NoCall == [op |-> "none"]

(***************************************************************************)
(* graphs.Node, graphs.Relationship, graphs.GraphDocument                  *)
(***************************************************************************)
NewNode(id, nodeType) == [ID |-> id, Type |-> nodeType, Properties |-> EmptyProps]

NewRelationship(source, target, relType) ==
    [Source |-> source, Target |-> target, Type |-> relType, Properties |-> EmptyProps]

NewGraphDocument == [Nodes |-> <<>>, Relationships |-> <<>>]

\* an empty database without the base entity constraint
EmptyStore == [nodes |-> {}, rels |-> {}, constraint |-> FALSE, nextId |-> 1]

\* the variables of a part of the system that a specification does not exercise
DocIdle ==
    /\ gd = NewGraphDocument
    /\ docLast = NoCall
    /\ docOps = 0

StoreIdle ==
    /\ store = EmptyStore
    /\ baseEntityLabel = FALSE
    /\ stLast = NoCall
    /\ stOps = 0

\* no AddGraphDocumentWithTransaction call was made
NoTransaction == [pc |-> "idle"]

TxIdle == tm = NoTransaction

NoQuery == [pc |-> "idle"]

NoValue == [pc |-> "idle"]

NoJSON == [pc |-> "idle"]

NoClone == [pc |-> "idle"]

NoStoreRead == [pc |-> "idle"]

NoProperty == [pc |-> "idle"]

NoSchemaMaps == [pc |-> "idle"]

MoreIdle == cl = NoClone /\ rd = NoStoreRead /\ fp = NoProperty /\ sm = NoSchemaMaps

CallsIdle == qc = NoQuery /\ san = NoValue /\ js = NoJSON /\ MoreIdle

\* for key, value := range properties { target[key] = value }
SetAll(target, properties) ==
    [k \in (DOMAIN target) \cup (DOMAIN properties) |->
        IF k \in DOMAIN properties THEN properties[k] ELSE target[k]]

GetIdentifier(r) == [SourceID |-> r.Source.ID, TargetID |-> r.Target.ID, Type |-> r.Type]

\* append(s[:i], s[i+1:]...) with i counted from 1
RemoveAt(s, i) == SubSeq(s, 1, i - 1) \o SubSeq(s, i + 1, Len(s))

SameTriple(rel, sourceID, targetID, relType) ==
    rel.Source.ID = sourceID /\ rel.Target.ID = targetID /\ rel.Type = relType

\* for i, node := range gd.Nodes { if node.ID == nodeID { ... return } }: the index
\* (from 1) of the first node with that ID, 0 when the loop ends without one
FindNode(d, nodeID) ==
    IF \E i \in 1..Len(d.Nodes) : d.Nodes[i].ID = nodeID
    THEN CHOOSE i \in 1..Len(d.Nodes) :
            d.Nodes[i].ID = nodeID /\ \A j \in 1..(i - 1) : d.Nodes[j].ID # nodeID
    ELSE 0

\* likewise the index of the first relationship with the triple
FindRelationship(d, sourceID, targetID, relType) ==
    IF \E i \in 1..Len(d.Relationships) : SameTriple(d.Relationships[i], sourceID, targetID, relType)
    THEN CHOOSE i \in 1..Len(d.Relationships) :
            /\ SameTriple(d.Relationships[i], sourceID, targetID, relType)
            /\ \A j \in 1..(i - 1) : ~SameTriple(d.Relationships[j], sourceID, targetID, relType)
    ELSE 0

GraphDocument_AddNode(d, node) == [d EXCEPT !.Nodes = Append(@, node)]

GraphDocument_AddRelationship(d, rel) == [d EXCEPT !.Relationships = Append(@, rel)]

removeRelationshipsByNodeID_SourceOnly(rels, nodeID) ==
    SelectSeq(rels, LAMBDA rel : rel.Source.ID # nodeID)

removeRelationshipsByNodeID(rels, nodeID) ==
    SelectSeq(rels, LAMBDA rel : rel.Source.ID # nodeID /\ rel.Target.ID # nodeID)

\* RemoveNode done otherwise: every node with the ID goes, not the first alone
GraphDocument_RemoveNode_Every(d, nodeID) ==
    IF FindNode(d, nodeID) = 0
    THEN [gd |-> d, ret |-> FALSE]
    ELSE [gd |-> [Nodes |-> SelectSeq(d.Nodes, LAMBDA node : node.ID # nodeID),
                  Relationships |-> removeRelationshipsByNodeID(d.Relationships, nodeID)],
          ret |-> TRUE]

\* returns the document after the call and the call's result
GraphDocument_RemoveNode(d, nodeID) ==
    LET i == FindNode(d, nodeID)
    IN  IF i = 0
        THEN [gd |-> d, ret |-> FALSE]
        ELSE [gd |-> [Nodes |-> RemoveAt(d.Nodes, i),
                      Relationships |-> removeRelationshipsByNodeID(d.Relationships, nodeID)],
              ret |-> TRUE]

RECURSIVE GraphDocument_RemoveNodes(_, _)
\* ret counts the calls of RemoveNode that returned true
GraphDocument_RemoveNodes(d, nodeIDs) ==
    IF nodeIDs = <<>>
    THEN [gd |-> d, ret |-> 0]
    ELSE LET one == GraphDocument_RemoveNode(d, Head(nodeIDs))
             rest == GraphDocument_RemoveNodes(one.gd, Tail(nodeIDs))
         IN  [gd |-> rest.gd, ret |-> rest.ret + (IF one.ret THEN 1 ELSE 0)]

GraphDocument_RemoveRelationship(d, sourceID, targetID, relType) ==
    LET i == FindRelationship(d, sourceID, targetID, relType)
    IN  IF i = 0
        THEN [gd |-> d, ret |-> FALSE]
        ELSE [gd |-> [d EXCEPT !.Relationships = RemoveAt(@, i)], ret |-> TRUE]

RECURSIVE GraphDocument_RemoveRelationships(_, _)
GraphDocument_RemoveRelationships(d, identifiers) ==
    IF identifiers = <<>>
    THEN [gd |-> d, ret |-> 0]
    ELSE LET id == Head(identifiers)
             one == GraphDocument_RemoveRelationship(d, id.SourceID, id.TargetID, id.Type)
             rest == GraphDocument_RemoveRelationships(one.gd, Tail(identifiers))
         IN  [gd |-> rest.gd, ret |-> rest.ret + (IF one.ret THEN 1 ELSE 0)]

NodeExists(d, nodeID) == FindNode(d, nodeID) # 0

RelationshipExists(d, sourceID, targetID, relType) ==
    FindRelationship(d, sourceID, targetID, relType) # 0

GraphDocument_UpdateNode(d, nodeID, properties) ==
    LET i == FindNode(d, nodeID)
    IN  IF i = 0
        THEN [gd |-> d, ret |-> FALSE]
        ELSE [gd |-> [d EXCEPT !.Nodes[i].Properties = SetAll(@, properties)], ret |-> TRUE]

GraphDocument_UpdateRelationship(d, sourceID, targetID, relType, properties) ==
    LET i == FindRelationship(d, sourceID, targetID, relType)
    IN  IF i = 0
        THEN [gd |-> d, ret |-> FALSE]
        ELSE [gd |-> [d EXCEPT !.Relationships[i].Properties = SetAll(@, properties)],
              ret |-> TRUE]

\* MergeNodes done otherwise: an incoming node replaces the entry that has its ID
RECURSIVE MergeNodes_Overwrite(_, _)
MergeNodes_Overwrite(d, nodes) ==
    IF nodes = <<>> THEN d
    ELSE LET i == FindNode(d, Head(nodes).ID)
         IN  MergeNodes_Overwrite(IF i = 0
                                  THEN GraphDocument_AddNode(d, Head(nodes))
                                  ELSE [d EXCEPT !.Nodes[i] = Head(nodes)],
                                  Tail(nodes))

RECURSIVE MergeNodes(_, _)
MergeNodes(d, nodes) ==
    IF nodes = <<>> THEN d
    ELSE MergeNodes(IF ~NodeExists(d, Head(nodes).ID)
                    THEN GraphDocument_AddNode(d, Head(nodes)) ELSE d,
                    Tail(nodes))

\* MergeRelationships done otherwise: existence is tested in the receiver as it was
\* before the call
MergeRelationships_Before(d, rels) ==
    [d EXCEPT !.Relationships =
        @ \o SelectSeq(rels, LAMBDA rel :
                 ~RelationshipExists(d, rel.Source.ID, rel.Target.ID, rel.Type))]

RECURSIVE MergeRelationships(_, _)
MergeRelationships(d, rels) ==
    IF rels = <<>> THEN d
    ELSE LET rel == Head(rels)
         IN  MergeRelationships(
                 IF ~RelationshipExists(d, rel.Source.ID, rel.Target.ID, rel.Type)
                 THEN GraphDocument_AddRelationship(d, rel) ELSE d,
                 Tail(rels))

GraphDocument_Merge(d, other) ==
    MergeRelationships(MergeNodes(d, other.Nodes), other.Relationships)

(***************************************************************************)
(* The schema cache of the Neo4j store: RefreshSchema, GetSchema and       *)
(* GetStructuredSchema under schemaMux.  formatSchema renders the basic    *)
(* lines or, with enhancedSchema set, the enhanced blocks.                 *)
(***************************************************************************)
MaxRefreshCalls == 2

Refreshers == {"r1", "r2"}

NoRefresh == <<"none", 0>>

\* make(map[string]interface{}): the map without a key
NoSchema == [k \in {} |-> {}]

StringProp(name) == [property |-> name, type |-> "STRING"]

\* what apoc.meta.data, SHOW CONSTRAINTS and apoc.schema.nodes report for a database:
\* the records of the five queries of RefreshSchema
DbPersons ==
    [nodes |-> <<[labels |-> "Person", properties |-> <<StringProp("id")>>]>>,
     relProps |-> <<>>,
     rels |-> <<>>,
     constraint |-> <<>>,
     index |-> <<>>,
     stored |-> {}]

DbCompanies ==
    [nodes |-> <<[labels |-> "Person", properties |-> <<StringProp("id"), StringProp("a")>>],
                 [labels |-> "Company", properties |-> <<StringProp("id")>>]>>,
     relProps |-> <<[type |-> "KNOWS", properties |-> <<StringProp("a")>>]>>,
     rels |-> <<[start |-> "Person", type |-> "KNOWS", end |-> "Company"]>>,
     constraint |-> <<[name |-> "entity_id"]>>,
     index |-> <<[label |-> "Person"]>>,
     stored |-> {}]

\* three Person nodes with the ages 1, 5 and 9: stored holds the values of the numeric
\* properties, which apoc.meta.data does not report
DbAges ==
    [nodes |-> <<[labels |-> "Person",
                  properties |-> <<StringProp("id"), [property |-> "age", type |-> "INTEGER"]>>]>>,
     relProps |-> <<>>,
     rels |-> <<>>,
     constraint |-> <<>>,
     index |-> <<>>,
     stored |-> {[label |-> "Person", property |-> "age", values |-> {1, 5, 9}]}]

DbSchemas == {DbPersons, DbCompanies, DbAges}

\* the outcome of one n.Query: records ("ok"), or the error of the statement: the
\* procedure is not found ("apoc"), the procedure is there and its call failed ("failed"),
\* any other error ("error")
QueryOutcomes == {"ok", "apoc", "failed", "error"}

\* err.Error() of the error n.Query returns, as the set of the substrings isAPOCError
\* looks for that it contains, and the status code of the database
ErrorText(outcome) ==
    CASE outcome = "apoc" ->
            {"Neo.ClientError.Procedure.ProcedureNotFound", "apoc.meta.data"}
      [] outcome = "failed" ->
            {"Neo.ClientError.Procedure.ProcedureCallFailed", "apoc.meta.data"}
      [] OTHER -> {"Neo.ClientError.Statement.ExecutionFailed"}

\* isAPOCError done otherwise: the status code alone
isAPOCError_CodeOnly(errorStr) == "Neo.ClientError.Procedure.ProcedureNotFound" \in errorStr

\* strings.Contains(errorStr, ...) over the four substrings
isAPOCError(errorStr) ==
    \/ "Neo.ClientError.Procedure.ProcedureNotFound" \in errorStr
    \/ "apoc.meta.data" \in errorStr
    \/ "apoc.merge.node" \in errorStr
    \/ "apoc.merge.relationship" \in errorStr

\* best effort: the records of SHOW CONSTRAINTS and of the index query, an empty list for
\* the one that failed; (this one leaves its key out)
Metadata_NoFallback(constraints, indexes, database) ==
    [k \in (IF constraints = "ok" THEN {"constraint"} ELSE {})
            \cup (IF indexes = "ok" THEN {"index"} ELSE {}) |->
        IF k = "constraint" THEN database.constraint ELSE database.index]

Metadata(constraints, indexes, database) ==
    [constraint |-> IF constraints = "ok" THEN database.constraint ELSE <<>>,
     index |-> IF indexes = "ok" THEN database.index ELSE <<>>]

\* nodeProps[labels] = properties (relProps[relType] = properties) over the records
RecordsToMap(records, key) ==
    [k \in {records[i][key] : i \in 1 .. Len(records)} |->
        records[CHOOSE i \in 1 .. Len(records) :
                    /\ records[i][key] = k
                    /\ \A j \in 1 .. Len(records) : records[j][key] = k => j <= i].properties]

\* the map RefreshSchema builds from the results of its queries
BuildStructuredSchema(nodeResult, relPropsResult, relsResult, metadata) ==
    [node_props |-> RecordsToMap(nodeResult, "labels"),
     rel_props |-> RecordsToMap(relPropsResult, "type"),
     relationships |-> relsResult,
     metadata |-> metadata]

RECURSIVE Join(_, _)
\* strings.Join
Join(parts, sep) ==
    IF parts = <<>> THEN ""
    ELSE IF Len(parts) = 1 THEN parts[1]
    ELSE parts[1] \o sep \o Join(Tail(parts), sep)

\* fmt.Sprintf("%s: %s", name, propType) for each property
PropStrs(propsList) == [i \in 1 .. Len(propsList) |-> propsList[i].property \o ": " \o propsList[i].type]

RECURSIVE PropertyLines(_, _)
\* one line per label of `order` that has a property
PropertyLines(props, order) ==
    IF order = <<>> THEN <<>>
    ELSE LET label == Head(order)
             propStrs == PropStrs(props[label])
         IN  (IF Len(propStrs) > 0
              THEN <<label \o " {" \o Join(propStrs, ", ") \o "}">>
              ELSE <<>>) \o PropertyLines(props, Tail(order))

RelationshipLines(relationships) ==
    [i \in 1 .. Len(relationships) |->
        "(:" \o relationships[i].start \o ")-[:" \o relationships[i].type \o "]->(:"
             \o relationships[i].end \o ")"]

\* the orders in which a range over a map may visit its keys
KeyOrders(m) ==
    {order \in [1 .. Cardinality(DOMAIN m) -> DOMAIN m] :
        \A k \in DOMAIN m : \E i \in DOMAIN order : order[i] = k}

LIST_LIMIT == 128

DISTINCT_VALUE_LIMIT == 10

\* strings.ReplaceAll of "\n" and of "\r" by " ", on the texts of this module
cleanStringValues(text) ==
    IF text = "Line 1\nLine 2\rLine 3" THEN "Line 1 Line 2 Line 3" ELSE text

\* count, ok := v.(int): whether the integers of the map are Go ints; a map that does not
\* say holds ints, one filled from the records of the driver holds int64
AssertsInt(propMap) == "ints" \notin DOMAIN propMap \/ propMap.ints = "int"

\* formatEnhancedProperty: the example text of a property by its type (<backtick> stands
\* for the character, which a string of this module cannot hold)
EnhancedExample(propMap) ==
    CASE propMap.type = "STRING" ->
            IF "values" \in DOMAIN propMap /\ Len(propMap.values) > 0
                  /\ "distinct_count" \in DOMAIN propMap
            THEN IF AssertsInt(propMap) /\ propMap.distinct_count > DISTINCT_VALUE_LIMIT
                 THEN "Example: \"" \o cleanStringValues(propMap.values[1]) \o "\""
                 ELSE "Available options: ["
                      \o Join([i \in 1 .. Len(propMap.values) |->
                                  cleanStringValues(propMap.values[i])], " ")
                      \o "]"
            ELSE ""
      [] propMap.type \in {"INTEGER", "FLOAT", "DATE", "DATE_TIME", "LOCAL_DATE_TIME"} ->
            IF "min" \in DOMAIN propMap
            THEN IF "max" \in DOMAIN propMap
                 THEN "Min: " \o ToString(propMap.min) \o ", Max: " \o ToString(propMap.max)
                 ELSE ""
            ELSE IF "values" \in DOMAIN propMap /\ Len(propMap.values) > 0
                 THEN "Example: \"" \o ToString(propMap.values[1]) \o "\""
                 ELSE ""
      [] propMap.type = "LIST" ->
            IF "min_size" \in DOMAIN propMap /\ AssertsInt(propMap)
                  /\ propMap.min_size <= LIST_LIMIT /\ "max_size" \in DOMAIN propMap
            THEN "Min Size: " \o ToString(propMap.min_size)
                 \o ", Max Size: " \o ToString(propMap.max_size)
            ELSE ""
      [] OTHER -> ""    \* the types without example

\* a LIST whose min_size is not an int of at most LIST_LIMIT is skipped
formatEnhancedProperty(propMap) ==
    IF propMap.type = "LIST" /\ "min_size" \in DOMAIN propMap
          /\ ~(AssertsInt(propMap) /\ propMap.min_size <= LIST_LIMIT)
    THEN ""
    ELSE LET example == EnhancedExample(propMap)
             head == "<backtick>" \o propMap.property \o "<backtick>: " \o propMap.type
         IN  IF example # "" THEN head \o " " \o example ELSE head

RECURSIVE EnhancedProperties(_)
\* one "  - ..." line per property that formatEnhancedProperty renders
EnhancedProperties(propsList) ==
    IF propsList = <<>> THEN <<>>
    ELSE LET formatted == formatEnhancedProperty(Head(propsList))
         IN  (IF formatted # "" THEN <<"  - " \o formatted>> ELSE <<>>)
             \o EnhancedProperties(Tail(propsList))

RECURSIVE EnhancedLines(_, _)
\* the block of each label of order: "- **label**" and its properties
EnhancedLines(props, order) ==
    IF order = <<>> THEN <<>>
    ELSE <<"- **" \o Head(order) \o "**">> \o EnhancedProperties(props[Head(order)])
         \o EnhancedLines(props, Tail(order))

\* if n.enhancedSchema { ... } else { ... } inside the range over the map
SectionLines(props, order) ==
    IF enhancedSchema THEN EnhancedLines(props, order) ELSE PropertyLines(props, order)

\* formatSchema_parts done otherwise: the relationship section first
formatSchema_parts_RelationshipsFirst(schema, labelOrder, relTypeOrder) ==
    <<"The relationships:">>
    \o (IF "relationships" \in DOMAIN schema
        THEN RelationshipLines(schema.relationships) ELSE <<>>)
    \o <<"Node properties:">>
    \o (IF "node_props" \in DOMAIN schema
        THEN SectionLines(schema.node_props, labelOrder) ELSE <<>>)
    \o <<"Relationship properties:">>
    \o (IF "rel_props" \in DOMAIN schema
        THEN SectionLines(schema.rel_props, relTypeOrder) ELSE <<>>)

\* the slice parts of formatSchema, node_props visited in labelOrder and rel_props in
\* relTypeOrder
formatSchema_parts(schema, labelOrder, relTypeOrder) ==
    <<"Node properties:">>
    \o (IF "node_props" \in DOMAIN schema
        THEN SectionLines(schema.node_props, labelOrder) ELSE <<>>)
    \o <<"Relationship properties:">>
    \o (IF "rel_props" \in DOMAIN schema
        THEN SectionLines(schema.rel_props, relTypeOrder) ELSE <<>>)
    \o <<"The relationships:">>
    \o (IF "relationships" \in DOMAIN schema
        THEN RelationshipLines(schema.relationships) ELSE <<>>)

\* strings.Join(parts, "\n")
formatSchema(schema, labelOrder, relTypeOrder) ==
    Join(formatSchema_parts(schema, labelOrder, relTypeOrder), "\n")

\* the strings formatSchema can return for a structured schema
Renderings(schema) ==
    IF "node_props" \in DOMAIN schema
    THEN {formatSchema(schema, lo, ro) :
            lo \in KeyOrders(schema.node_props), ro \in KeyOrders(schema.rel_props)}
    ELSE {formatSchema(schema, <<>>, <<>>)}

\* n.structuredSchema = structuredSchema; n.schemaCache = n.formatSchema(structuredSchema)
CommitSchema_RenderingOnly(cache, built, rendering) ==
    [schemaCache |-> rendering, structuredSchema |-> cache.structuredSchema]

CommitSchema(cache, built, rendering) ==
    [schemaCache |-> rendering, structuredSchema |-> built]

\* newNeo4j: no rendering yet, an empty structured map
NewCache == [schemaCache |-> "", structuredSchema |-> NoSchema]

\* a goroutine outside RefreshSchema: no call made, no local set
IdleRefresher ==
    [pc |-> "idle", err |-> "", call |-> 0, nodeResult |-> <<>>, relPropsResult |-> <<>>,
     relsResult |-> <<>>, built |-> NoSchema, atCall |-> NewCache, others |-> FALSE,
     cause |-> "", unavailable |-> {}]

NoRead == [op |-> "none", during |-> NoRefresh, atIssue |-> "", value |-> "",
           returnedDuring |-> NoRefresh]

IdleReader == [pc |-> "idle", first |-> NoRead, second |-> NoRead]

SchemaIdle ==
    /\ driver = TRUE
    /\ enhancedSchema = FALSE
    /\ schemaMux = "none"
    /\ schemaCache = ""
    /\ structuredSchema = NoSchema
    /\ db = DbPersons
    /\ refresh = [r \in Refreshers |-> IdleRefresher]
    /\ reader = IdleReader

(***************************************************************************)
(* The Neo4j database as the Cypher of the write paths sees it.  A node    *)
(* is [eid, labels, props]; its ID is the property "id".  A relationship   *)
(* is [rid, src, tgt, type, props] between two eids.  Every statement is   *)
(* one auto-commit transaction: it takes effect whole or, when the         *)
(* database rejects it, not at all.                                        *)
(***************************************************************************)
BASE_ENTITY_LABEL == "__Entity__"

MergeModeCreate == "Create"
MergeModeUpdate == "Update"
MergeModeUpsert == "Upsert"
MergeModeReplace == "Replace"
MergeModes == {MergeModeCreate, MergeModeUpdate, MergeModeUpsert, MergeModeReplace}

IdProps(id) == [k \in {"id"} |-> id]

HasId(n, id) == "id" \in DOMAIN n.props /\ n.props["id"] = id

\* MATCH (n:`l1`:`l2` {id: $id})
MatchNodes(st, labels, id) == {n \in st.nodes : labels \subseteq n.labels /\ HasId(n, id)}

Eids(ns) == {n.eid : n \in ns}

\* MATCH (s {id: $sourceId}), (t {id: $targetId}): every pair of matching nodes
MatchPairs(st, sourceId, targetId) ==
    Eids(MatchNodes(st, {}, sourceId)) \X Eids(MatchNodes(st, {}, targetId))

\* MATCH (s {id: $sourceId})-[r:T]->(t {id: $targetId})
MatchRels(st, sourceId, relType, targetId) ==
    {r \in st.rels : /\ r.type = relType
                     /\ r.src \in Eids(MatchNodes(st, {}, sourceId))
                     /\ r.tgt \in Eids(MatchNodes(st, {}, targetId))}

\* CREATE (n:labels props)
CypherCreateNode(st, labels, props) ==
    [st EXCEPT !.nodes = @ \cup {[eid |-> st.nextId, labels |-> labels, props |-> props]},
               !.nextId = @ + 1]

\* MERGE (n:labels {id: $id}): binds every match, creates one node when there is none
CypherMergeNode(st, labels, id) ==
    LET m == MatchNodes(st, labels, id)
    IN  IF m # {}
        THEN [st |-> st, bound |-> Eids(m)]
        ELSE [st |-> CypherCreateNode(st, labels, IdProps(id)), bound |-> {st.nextId}]

\* SET n += $properties on the bound nodes
CypherSetNodesPlus(st, eids, properties) ==
    [st EXCEPT !.nodes = {IF n.eid \in eids THEN [n EXCEPT !.props = SetAll(@, properties)] ELSE n
                          : n \in @}]

\* SET n = $properties on the bound nodes: the property map is replaced, "id" included
CypherSetNodesTo(st, eids, properties) ==
    [st EXCEPT !.nodes = {IF n.eid \in eids THEN [n EXCEPT !.props = properties] ELSE n : n \in @}]

CypherAddLabels(st, eids, labels) ==
    [st EXCEPT !.nodes = {IF n.eid \in eids THEN [n EXCEPT !.labels = @ \cup labels] ELSE n : n \in @}]

RECURSIVE CypherCreateRels(_, _, _, _)
\* CREATE (s)-[r:T]->(t) SET r = $properties, once per matched pair
CypherCreateRels(st, pairs, relType, properties) ==
    IF pairs = {} THEN st
    ELSE LET p == CHOOSE q \in pairs : TRUE
         IN  CypherCreateRels(
                 [st EXCEPT !.rels = @ \cup {[rid |-> st.nextId, src |-> p[1], tgt |-> p[2],
                                              type |-> relType, props |-> properties]},
                            !.nextId = @ + 1],
                 pairs \ {p}, relType, properties)

\* MERGE (s)-[r:T]->(t) per matched pair: creates the relationship where the pair has none
CypherMergeRels(st, pairs, relType) ==
    CypherCreateRels(st,
        {p \in pairs : ~\E r \in st.rels : r.src = p[1] /\ r.tgt = p[2] /\ r.type = relType},
        relType, EmptyProps)

RelsOfPairs(st, pairs, relType) ==
    {r.rid : r \in {x \in st.rels : <<x.src, x.tgt>> \in pairs /\ x.type = relType}}

CypherSetRelsPlus(st, rids, properties) ==
    [st EXCEPT !.rels = {IF r.rid \in rids THEN [r EXCEPT !.props = SetAll(@, properties)] ELSE r
                         : r \in @}]

CypherSetRelsTo(st, rids, properties) ==
    [st EXCEPT !.rels = {IF r.rid \in rids THEN [r EXCEPT !.props = properties] ELSE r : r \in @}]

\* CREATE CONSTRAINT ... FOR (b:`__Entity__`) REQUIRE b.id IS UNIQUE
UniqueViolated(st) ==
    \E n, m \in st.nodes :
        /\ n.eid # m.eid
        /\ BASE_ENTITY_LABEL \in n.labels /\ BASE_ENTITY_LABEL \in m.labels
        /\ "id" \in DOMAIN n.props /\ "id" \in DOMAIN m.props
        /\ n.props["id"] = m.props["id"]

\* the outcome of one statement that would leave the database as `after`
Commit(st, after) ==
    IF after.constraint /\ UniqueViolated(after)
    THEN [st |-> st, err |-> "ConstraintValidationFailed"]
    ELSE [st |-> after, err |-> ""]

(***************************************************************************)
(* Neo4j.AddNodes, AddRelationships, UpdateNode, UpdateRelationship        *)
(***************************************************************************)
\* the labels AddNodes writes in its CREATE and MERGE patterns
AddNodesLabels(base, nodeType) == IF base THEN {nodeType, BASE_ENTITY_LABEL} ELSE {nodeType}

\* the statement AddNodes sends for one node
AddNodesQuery(st, base, node, mode) ==
    CASE mode = MergeModeCreate ->
            Commit(st, CypherSetNodesPlus(
                           CypherCreateNode(st, AddNodesLabels(base, node.Type), IdProps(node.ID)),
                           {st.nextId}, node.Properties))
      [] mode = MergeModeUpdate ->
            Commit(st, CypherSetNodesPlus(st, Eids(MatchNodes(st, {node.Type}, node.ID)),
                                          node.Properties))
      [] mode = MergeModeReplace ->
            LET m == CypherMergeNode(st, AddNodesLabels(base, node.Type), node.ID)
            IN  Commit(st, CypherSetNodesTo(m.st, m.bound, node.Properties))
      [] OTHER ->
            LET m == CypherMergeNode(st, AddNodesLabels(base, node.Type), node.ID)
            IN  Commit(st, CypherSetNodesPlus(m.st, m.bound, node.Properties))

RECURSIVE Neo4j_AddNodes(_, _, _, _, _)
\* failAt: which session.Run of the call the driver fails (0: none)
Neo4j_AddNodes(st, base, nodes, mode, failAt) ==
    IF nodes = <<>> THEN [st |-> st, err |-> ""]
    ELSE IF failAt = 1 THEN [st |-> st, err |-> "failed to add node"]
    ELSE LET q == AddNodesQuery(st, base, Head(nodes), mode)
         IN  IF q.err # "" THEN [st |-> q.st, err |-> "failed to add node"]
             ELSE Neo4j_AddNodes(q.st, base, Tail(nodes), mode, failAt - 1)

\* the statement AddRelationships sends for one relationship
AddRelationshipsQuery(st, rel, mode) ==
    LET pairs == MatchPairs(st, rel.Source.ID, rel.Target.ID)
    IN  CASE mode = MergeModeCreate ->
                Commit(st, CypherCreateRels(st, pairs, rel.Type, rel.Properties))
          [] mode = MergeModeUpdate ->
                Commit(st, CypherSetRelsPlus(st,
                               {r.rid : r \in MatchRels(st, rel.Source.ID, rel.Type, rel.Target.ID)},
                               rel.Properties))
          [] mode = MergeModeReplace ->
                LET m == CypherMergeRels(st, pairs, rel.Type)
                IN  Commit(st, CypherSetRelsTo(m, RelsOfPairs(m, pairs, rel.Type), rel.Properties))
          [] OTHER ->
                LET m == CypherMergeRels(st, pairs, rel.Type)
                IN  Commit(st, CypherSetRelsPlus(m, RelsOfPairs(m, pairs, rel.Type), rel.Properties))

RECURSIVE Neo4j_AddRelationships(_, _, _, _)
Neo4j_AddRelationships(st, relationships, mode, failAt) ==
    IF relationships = <<>> THEN [st |-> st, err |-> ""]
    ELSE IF failAt = 1 THEN [st |-> st, err |-> "failed to add relationship"]
    ELSE LET q == AddRelationshipsQuery(st, Head(relationships), mode)
         IN  IF q.err # "" THEN [st |-> q.st, err |-> "failed to add relationship"]
             ELSE Neo4j_AddRelationships(q.st, Tail(relationships), mode, failAt - 1)

\* MATCH (n {id: $id}) SET n += $properties RETURN n
Neo4j_UpdateNode(st, nodeID, properties, failAt) ==
    IF failAt = 1 THEN [st |-> st, err |-> "failed to update node"]
    ELSE LET m == MatchNodes(st, {}, nodeID)
             q == Commit(st, CypherSetNodesPlus(st, Eids(m), properties))
         IN  IF q.err # "" THEN [st |-> q.st, err |-> "failed to update node"]
             ELSE IF m = {} THEN [st |-> q.st, err |-> "not found"]
             ELSE q

\* MATCH (s {id: $sourceId})-[r:T]->(t {id: $targetId}) SET r += $properties RETURN r
Neo4j_UpdateRelationship(st, sourceID, targetID, relType, properties, failAt) ==
    IF failAt = 1 THEN [st |-> st, err |-> "failed to update relationship"]
    ELSE LET m == MatchRels(st, sourceID, relType, targetID)
             q == Commit(st, CypherSetRelsPlus(st, {r.rid : r \in m}, properties))
         IN  IF m = {} THEN [st |-> q.st, err |-> "not found"] ELSE q

(***************************************************************************)
(* Spec: callers of the store's write paths                                *)
(***************************************************************************)
NodeOf(id, nodeType, properties) == [ID |-> id, Type |-> nodeType, Properties |-> properties]

RelOf(sourceID, targetID, relType, properties) ==
    [Source |-> NewNode(sourceID, "Person"), Target |-> NewNode(targetID, "Person"),
     Type |-> relType, Properties |-> properties]

StoreNodeInputs ==
    {NodeOf(i, t, p) : i \in NodeIDs, t \in Types, p \in {PropsA1, PropsB2}}
    \cup {NodeOf("1", "Person", PropsA2), NodeOf("2", "Person", EmptyProps)}

StoreNodeLists ==
    {<<n>> : n \in StoreNodeInputs}
    \cup {<<NodeOf("1", "Person", PropsA1), NodeOf("1", "Person", PropsB2)>>}

StoreRelInputs ==
    {RelOf(s, t, "KNOWS", p) : s \in NodeIDs, t \in {"2"}, p \in {PropsA2, PropsB2}}

StoreRelLists ==
    {<<r>> : r \in StoreRelInputs}
    \cup {<<RelOf("1", "2", "KNOWS", PropsA2), RelOf("2", "2", "KNOWS", PropsB2)>>}

\* which call to the driver fails: none, the first or the second
FailPoints == {0, 1, 2}

\* a database earlier sessions wrote: two Person nodes and a KNOWS relationship
SeededStore(base) ==
    Neo4j_AddRelationships(
        Neo4j_AddNodes(EmptyStore, base,
                       <<NodeOf("1", "Person", PropsA1), NodeOf("2", "Person", EmptyProps)>>,
                       MergeModeUpsert, 0).st,
        <<RelOf("1", "2", "KNOWS", PropsA1)>>, MergeModeUpsert, 0).st

\* the database holds what earlier sessions left; with base entity labelling the
\* uniqueness constraint may already have been created by an earlier import
Init ==
    /\ baseEntityLabel \in BOOLEAN
    /\ \E seeded \in BOOLEAN, constraint \in BOOLEAN :
          /\ constraint => baseEntityLabel
          /\ store = [(IF seeded THEN SeededStore(baseEntityLabel) ELSE EmptyStore)
                        EXCEPT !.constraint = constraint]
    /\ stLast = NoCall
    /\ stOps = 0
    /\ DocIdle
    /\ SchemaIdle
    /\ TxIdle
    /\ CallsIdle

StoreCall(call, res) ==
    /\ stOps < MaxStoreOps
    /\ store' = res.st
    /\ stLast' = call @@ [err |-> res.err, pre |-> store]
    /\ stOps' = stOps + 1
    /\ UNCHANGED <<baseEntityLabel, docVars, schemaVars, txVars, callVars>>

AddNodes ==
    \E nodes \in StoreNodeLists, mode \in MergeModes, failAt \in FailPoints :
        /\ failAt <= Len(nodes)
        /\ StoreCall([op |-> "AddNodes", nodes |-> nodes, mode |-> mode, failAt |-> failAt],
                     Neo4j_AddNodes(store, baseEntityLabel, nodes, mode, failAt))

AddRelationships ==
    \E rels \in StoreRelLists, mode \in MergeModes, failAt \in FailPoints :
        /\ failAt <= Len(rels)
        /\ StoreCall([op |-> "AddRelationships", rels |-> rels, mode |-> mode, failAt |-> failAt],
                     Neo4j_AddRelationships(store, rels, mode, failAt))

UpdateNode ==
    \E nodeID \in NodeIDs, properties \in {PropsA2, PropsB2}, failAt \in {0, 1} :
        StoreCall([op |-> "UpdateNode", nodeID |-> nodeID, properties |-> properties,
                   failAt |-> failAt],
                  Neo4j_UpdateNode(store, nodeID, properties, failAt))

UpdateRelationship ==
    \E id \in {GetIdentifier(r) : r \in StoreRelInputs}, properties \in {PropsA2, PropsB2},
       failAt \in {0, 1} :
        StoreCall([op |-> "UpdateRelationship", id |-> id, properties |-> properties,
                   failAt |-> failAt],
                  Neo4j_UpdateRelationship(store, id.SourceID, id.TargetID, id.Type, properties, failAt))

Next ==
    \/ AddNodes
    \/ AddRelationships
    \/ UpdateNode
    \/ UpdateRelationship

Spec == Init /\ [][Next]_vars

(***************************************************************************)
(* DocSpec: callers of the GraphDocument methods                           *)
(***************************************************************************)
DocNodeInputs ==
    {[ID |-> i, Type |-> "Person", Properties |-> p] : i \in NodeIDs, p \in {EmptyProps, PropsA1}}
    \cup {NewNode("1", "Company")}

KnowsRel(s, t) == NewRelationship(NewNode(s, "Person"), NewNode(t, "Person"), "KNOWS")

DocRelInputs ==
    {KnowsRel("1", "2"), KnowsRel("2", "1"), KnowsRel("1", "1"),
     NewRelationship(NewNode("1", "Person"), NewNode("2", "Person"), "LIKES")}

\* lists with a repeated and with an unknown identifier among them
DocIdLists == {<<"1">>, <<"2">>, <<"1", "1">>, <<"1", "2">>}

DocIdentifiers == {GetIdentifier(r) : r \in DocRelInputs}

DocIdentifierLists ==
    {<<x>> : x \in DocIdentifiers}
    \cup {<<GetIdentifier(KnowsRel("1", "2")), GetIdentifier(KnowsRel("1", "2"))>>,
          <<GetIdentifier(KnowsRel("1", "2")), GetIdentifier(KnowsRel("2", "1"))>>}

\* documents handed to Merge: built with AddNode / AddRelationship by another producer
DocOthers ==
    {[Nodes |-> ns, Relationships |-> rs] :
        ns \in {<<>>, <<NewNode("1", "Person")>>,
                <<[ID |-> "2", Type |-> "Company", Properties |-> PropsA2], NewNode("2", "Person")>>},
        rs \in {<<>>,
                <<KnowsRel("1", "2"), KnowsRel("1", "2")>>}}

DocInit ==
    /\ DocIdle
    /\ StoreIdle
    /\ SchemaIdle
    /\ TxIdle
    /\ CallsIdle

DocCall(op, args, res) ==
    /\ docOps < MaxDocOps
    /\ Len(res.gd.Nodes) <= MaxDocNodes
    /\ Len(res.gd.Relationships) <= MaxDocRels
    /\ gd' = res.gd
    /\ docLast' = [op |-> op, args |-> args, ret |-> res.ret, pre |-> gd]
    /\ docOps' = docOps + 1
    /\ UNCHANGED <<storeVars, schemaVars, txVars, callVars>>

DocAddNode ==
    \E node \in DocNodeInputs :
        DocCall("AddNode", <<node>>, [gd |-> GraphDocument_AddNode(gd, node), ret |-> TRUE])

DocAddRelationship ==
    \E rel \in DocRelInputs :
        DocCall("AddRelationship", <<rel>>,
                [gd |-> GraphDocument_AddRelationship(gd, rel), ret |-> TRUE])

DocRemoveNode ==
    \E nodeID \in NodeIDs :
        DocCall("RemoveNode", <<nodeID>>, GraphDocument_RemoveNode(gd, nodeID))

DocRemoveNodes ==
    \E nodeIDs \in DocIdLists :
        DocCall("RemoveNodes", <<nodeIDs>>, GraphDocument_RemoveNodes(gd, nodeIDs))

DocRemoveRelationship ==
    \E id \in DocIdentifiers :
        DocCall("RemoveRelationship", <<id>>,
                GraphDocument_RemoveRelationship(gd, id.SourceID, id.TargetID, id.Type))

DocRemoveRelationships ==
    \E ids \in DocIdentifierLists :
        DocCall("RemoveRelationships", <<ids>>, GraphDocument_RemoveRelationships(gd, ids))

DocUpdateNode ==
    \E nodeID \in NodeIDs, properties \in {PropsA2, PropsB2} :
        DocCall("UpdateNode", <<nodeID, properties>>,
                GraphDocument_UpdateNode(gd, nodeID, properties))

DocUpdateRelationship ==
    \E id \in DocIdentifiers, properties \in {PropsA2} :
        DocCall("UpdateRelationship", <<id, properties>>,
                GraphDocument_UpdateRelationship(gd, id.SourceID, id.TargetID, id.Type, properties))

DocMerge ==
    \E other \in DocOthers :
        DocCall("Merge", <<other>>, [gd |-> GraphDocument_Merge(gd, other), ret |-> TRUE])

DocNext ==
    \/ DocAddNode
    \/ DocAddRelationship
    \/ DocRemoveNode
    \/ DocRemoveNodes
    \/ DocRemoveRelationship
    \/ DocRemoveRelationships
    \/ DocUpdateNode
    \/ DocUpdateRelationship
    \/ DocMerge

DocSpec == DocInit /\ [][DocNext]_vars

(***************************************************************************)
(* C1                                                                      *)
(***************************************************************************)
CountID(nodes, nodeID) == Cardinality({i \in 1..Len(nodes) : nodes[i].ID = nodeID})

References(rels, nodeID) ==
    \E i \in 1..Len(rels) : rels[i].Source.ID = nodeID \/ rels[i].Target.ID = nodeID

RemovedNodeCall ==
    /\ docLast.op = "RemoveNode"
    /\ CountID(docLast.pre.Nodes, docLast.args[1]) >= 1

\* C1 as stated: after RemoveNode(n.ID) on any reachable document that contains n,
\* no relationship references n.ID and no node with ID n.ID remains.
C1_AsStated ==
    RemovedNodeCall =>
        /\ ~References(gd.Relationships, docLast.args[1])
        /\ CountID(gd.Nodes, docLast.args[1]) = 0

\* C1 (amended): after RemoveNode(n.ID) on a reachable document that contains n, the
\* call returns true, no relationship references n.ID as source or target, exactly
\* the first node with ID n.ID is gone (the others keep their order), and so no node
\* with ID n.ID remains when the document held that ID once.
C1_RemoveNodeCascades ==
    RemovedNodeCall =>
        LET id == docLast.args[1]
            i == FindNode(docLast.pre, id)
        IN  /\ docLast.ret = TRUE
            /\ ~References(gd.Relationships, id)
            /\ gd.Nodes = RemoveAt(docLast.pre.Nodes, i)
            /\ CountID(gd.Nodes, id) = CountID(docLast.pre.Nodes, id) - 1
            /\ (CountID(docLast.pre.Nodes, id) = 1 => CountID(gd.Nodes, id) = 0)

\* a RemoveNode of a node that was the source of one relationship and the target of another
C1_Witness ==
    /\ RemovedNodeCall
    /\ CountID(docLast.pre.Nodes, docLast.args[1]) = 1
    /\ \E i, j \in 1..Len(docLast.pre.Relationships) :
          /\ docLast.pre.Relationships[i].Source.ID = docLast.args[1]
          /\ docLast.pre.Relationships[j].Target.ID = docLast.args[1]
          /\ docLast.pre.Relationships[j].Source.ID # docLast.args[1]
    /\ Len(gd.Nodes) >= 1

(***************************************************************************)
(* C2 .. C5: the merge-mode table on AddNodes / AddRelationships           *)
(***************************************************************************)
\* an entity exists when a node has the ID, or a relationship the (source ID, target ID, type)
NodeInStore(st, id) == MatchNodes(st, {}, id) # {}

RelInStore(st, rel) == MatchRels(st, rel.Source.ID, rel.Type, rel.Target.ID) # {}

\* the last call was AddNodes in `mode`, and its first node was (exists = TRUE) or was
\* not (exists = FALSE) in the database before the call
AddNodesOn(mode, exists) ==
    /\ stLast.op = "AddNodes"
    /\ stLast.mode = mode
    /\ NodeInStore(stLast.pre, stLast.nodes[1].ID) = exists

AddRelationshipsOn(mode, exists) ==
    /\ stLast.op = "AddRelationships"
    /\ stLast.mode = mode
    /\ RelInStore(stLast.pre, stLast.rels[1]) = exists

\* a node (a relationship) of `before` as it is in `after`
NodeAfter(after, n) == CHOOSE m \in after.nodes : m.eid = n.eid

RelAfter(after, r) == CHOOSE x \in after.rels : x.rid = r.rid

\* C2 as stated: a Create-mode write whose target already exists fails with an error
\* and leaves the store unchanged (the entity keeps its properties, no second entity
\* with that identity is created).
C2_AsStated ==
    (AddNodesOn(MergeModeCreate, TRUE) \/ AddRelationshipsOn(MergeModeCreate, TRUE)) =>
        /\ stLast.err # ""
        /\ store = stLast.pre

\* C3 as stated: an Update-mode write whose target is absent reports a not-found
\* failure and creates no entity.
C3_AsStated ==
    /\ AddNodesOn(MergeModeUpdate, FALSE) /\ stLast.failAt = 0 =>
          /\ stLast.err = "not found"
          /\ ~NodeInStore(store, stLast.nodes[1].ID)
    /\ AddRelationshipsOn(MergeModeUpdate, FALSE) /\ stLast.failAt = 0 =>
          /\ stLast.err = "not found"
          /\ ~RelInStore(store, stLast.rels[1])

\* C4 as stated: AddNodes in Replace mode makes the property set of the node that
\* exists in the store exactly the input property set; on an absent node it creates
\* the node with the given properties.
C4_AsStated ==
    /\ stLast.op = "AddNodes" /\ stLast.mode = MergeModeReplace
    /\ Len(stLast.nodes) = 1 /\ stLast.err = ""
    =>  LET node == stLast.nodes[1]
            existing == MatchNodes(stLast.pre, {}, node.ID)
        IN  IF existing # {}
            THEN \A n \in existing : NodeAfter(store, n).props = node.Properties
            ELSE \E m \in store.nodes :
                    /\ m.eid \notin Eids(stLast.pre.nodes)
                    /\ \A k \in DOMAIN node.Properties :
                          k \in DOMAIN m.props /\ m.props[k] = node.Properties[k]

\* C5 as stated: a write in Update or Upsert mode (AddNodes, AddRelationships,
\* UpdateNode, UpdateRelationship) on an existing entity sets every key of the input
\* and leaves every other stored property unchanged.
C5_AsStated ==
    /\ /\ stLast.op = "AddNodes" /\ stLast.mode \in {MergeModeUpdate, MergeModeUpsert}
       /\ Len(stLast.nodes) = 1 /\ stLast.err = ""
       => \A n \in MatchNodes(stLast.pre, {}, stLast.nodes[1].ID) :
             NodeAfter(store, n).props = SetAll(n.props, stLast.nodes[1].Properties)
    /\ /\ stLast.op = "AddRelationships" /\ stLast.mode \in {MergeModeUpdate, MergeModeUpsert}
       /\ Len(stLast.rels) = 1 /\ stLast.err = ""
       => \A r \in MatchRels(stLast.pre, stLast.rels[1].Source.ID, stLast.rels[1].Type,
                             stLast.rels[1].Target.ID) :
             RelAfter(store, r).props = SetAll(r.props, stLast.rels[1].Properties)
    /\ stLast.op = "UpdateNode" /\ stLast.err = ""
       => \A n \in MatchNodes(stLast.pre, {}, stLast.nodeID) :
             NodeAfter(store, n).props = SetAll(n.props, stLast.properties)
    /\ stLast.op = "UpdateRelationship" /\ stLast.err = ""
       => \A r \in MatchRels(stLast.pre, stLast.id.SourceID, stLast.id.Type, stLast.id.TargetID) :
             RelAfter(store, r).props = SetAll(r.props, stLast.properties)

(***************************************************************************)
(* Neo4j.AddGraphDocument: the batched import of graph documents.  Each    *)
(* import statement is one auto-commit transaction over all rows of its    *)
(* UNWIND.  failAt counts the n.Query calls of the call: the failAt-th one *)
(* is failed by the driver (0: none).                                      *)
(***************************************************************************)
DefaultBatchSize == 100

MaxImportDocs == 3

\* strings.ReplaceAll removing every backtick, on the node types of the documents
\* (<backtick> stands for the character, which a string of this module cannot hold)
cleanString(text) == IF text = "Per<backtick>son" THEN "Person" ELSE text

\* strings.ToUpper on the relationship types of the documents
strings_ToUpper(text) == IF text = "works at" THEN "WORKS AT" ELSE text

\* strings.ReplaceAll(text, " ", "_")
SpacesToUnderscores(text) == IF text = "WORKS AT" THEN "WORKS_AT" ELSE text

\* the "type" field of a relationship row
RelImportType(relType) == cleanString(SpacesToUnderscores(strings_ToUpper(relType)))

After(failAt) == IF failAt > 0 THEN failAt - 1 ELSE 0

\* apoc.merge.node(labels, {id: id}, onCreateProps, {}): binds the matches, or creates
\* the node with onCreateProps; a matched node gets no property
apoc_merge_node(st, labels, id, onCreateProps) ==
    LET m == MatchNodes(st, labels, id)
    IN  IF m # {}
        THEN [st |-> st, bound |-> Eids(m)]
        ELSE [st |-> CypherCreateNode(st, labels, SetAll(IdProps(id), onCreateProps)),
              bound |-> {st.nextId}]

\* apoc.merge.relationship(source, type, {}, props, target) for every bound pair: creates the
\* relationship with props where the pair has none of that type, leaves a matched one as it is
apoc_merge_relationship(st, pairs, relType, props) ==
    CypherCreateRels(st,
        {p \in pairs : ~\E r \in st.rels : r.src = p[1] /\ r.tgt = p[2] /\ r.type = relType},
        relType, props)

ensureBaseEntityConstraint(st, base, failAt) ==
    IF ~base THEN [st |-> st, err |-> "", failAt |-> failAt]
    ELSE IF failAt # 1 /\ st.constraint
    THEN [st |-> st, err |-> "", failAt |-> After(failAt)]
    ELSE LET f == After(failAt)
         IN  IF f = 1 THEN [st |-> st, err |-> "query execution failed", failAt |-> 0]
             ELSE IF st.constraint THEN [st |-> st, err |-> "", failAt |-> After(f)]
             ELSE IF UniqueViolated([st EXCEPT !.constraint = TRUE])
             THEN [st |-> st, err |-> "ConstraintCreationFailed", failAt |-> After(f)]
             ELSE [st |-> [st EXCEPT !.constraint = TRUE], err |-> "", failAt |-> After(f)]

\* the text hashed by md5 and printed with %x: one string per text
md5Hash(text) == "md5(" \o text \o ")"

\* values of a metadata map that are not Go strings are written with this prefix
IsString(value) == value \notin {"int:7"}

generateDocumentID(source) ==
    IF /\ "id" \in DOMAIN source.Metadata
       /\ IsString(source.Metadata["id"])
       /\ source.Metadata["id"] # ""
    THEN source.Metadata["id"]
    ELSE md5Hash(source.PageContent)

\* MERGE (d:Document {id: $document_id}) SET d.text = $document_text
\* SET d += $document_metadata WITH d
MergeDocument(st, source) ==
    LET m == CypherMergeNode(st, {"Document"}, generateDocumentID(source))
    IN  [st |-> CypherSetNodesPlus(
                    CypherSetNodesPlus(m.st, m.bound, [k \in {"text"} |-> source.PageContent]),
                    m.bound, source.Metadata),
         bound |-> m.bound]

RECURSIVE NodeImportRows(_, _, _, _, _)
\* the rows of UNWIND $nodes AS node, in order; d: the Document nodes bound before it
NodeImportRows(st, base, nodes, includeSource, d) ==
    IF nodes = <<>> THEN st
    ELSE LET node == Head(nodes)
             n == IF base
                  THEN LET m == CypherMergeNode(st, {BASE_ENTITY_LABEL}, node.ID)
                       IN  [st |-> CypherAddLabels(
                                       CypherSetNodesPlus(m.st, m.bound, node.Properties),
                                       m.bound, {cleanString(node.Type)}),
                            bound |-> m.bound]
                  ELSE apoc_merge_node(st, {cleanString(node.Type)}, node.ID, node.Properties)
             next == IF includeSource
                     THEN CypherMergeRels(n.st, d \X n.bound, "MENTIONS")
                     ELSE n.st
         IN  NodeImportRows(next, base, Tail(nodes), includeSource, d)

\* the node import statement on the parameters importNodes prepares for doc
getNodeImportQuery(st, base, includeSource, doc) ==
    IF includeSource
    THEN LET d == MergeDocument(st, doc.Source)
         IN  NodeImportRows(d.st, base, doc.Nodes, TRUE, d.bound)
    ELSE NodeImportRows(st, base, doc.Nodes, FALSE, {})

RECURSIVE getRelImportQuery(_, _, _)
\* the rows of UNWIND $relationships AS rel, in order
getRelImportQuery(st, base, rels) ==
    IF rels = <<>> THEN st
    ELSE LET rel == Head(rels)
             s == IF base THEN CypherMergeNode(st, {BASE_ENTITY_LABEL}, rel.Source.ID)
                  ELSE apoc_merge_node(st, {cleanString(rel.Source.Type)}, rel.Source.ID, EmptyProps)
             t == IF base THEN CypherMergeNode(s.st, {BASE_ENTITY_LABEL}, rel.Target.ID)
                  ELSE apoc_merge_node(s.st, {cleanString(rel.Target.Type)}, rel.Target.ID,
                                       EmptyProps)
         IN  getRelImportQuery(
                 apoc_merge_relationship(t.st, s.bound \X t.bound, RelImportType(rel.Type),
                                         rel.Properties),
                 base, Tail(rels))

\* issued: whether the import statement was sent
importNodes(st, base, doc, includeSource, failAt) ==
    IF Len(doc.Nodes) = 0 THEN [st |-> st, err |-> "", failAt |-> failAt, issued |-> FALSE]
    ELSE LET c == ensureBaseEntityConstraint(st, base, failAt)
         IN  IF c.err # ""
             THEN [st |-> c.st, err |-> "failed to ensure base entity constraint",
                   failAt |-> c.failAt, issued |-> FALSE]
             ELSE IF c.failAt = 1
             THEN [st |-> c.st, err |-> "query execution failed", failAt |-> 0, issued |-> TRUE]
             ELSE LET q == Commit(c.st, getNodeImportQuery(c.st, base, includeSource, doc))
                  IN  [st |-> q.st, err |-> q.err, failAt |-> After(c.failAt), issued |-> TRUE]

importRelationships(st, base, doc, failAt) ==
    IF Len(doc.Relationships) = 0 THEN [st |-> st, err |-> "", failAt |-> failAt, issued |-> FALSE]
    ELSE IF failAt = 1
    THEN [st |-> st, err |-> "query execution failed", failAt |-> 0, issued |-> TRUE]
    ELSE LET q == Commit(st, getRelImportQuery(st, base, doc.Relationships))
         IN  [st |-> q.st, err |-> q.err, failAt |-> After(failAt), issued |-> TRUE]

\* the record of one import statement sent to the database: its kind, the chunk and the
\* document (position in the input) it belongs to, and the database it ran on
LogEntry(kind, chunk, doc, st) == [kind |-> kind, chunk |-> chunk, doc |-> doc, pre |-> st]

Logged(r, log, kind, chunk, doc, st) ==
    [st |-> r.st, err |-> r.err, failAt |-> r.failAt,
     log |-> IF r.issued THEN Append(log, LogEntry(kind, chunk, doc, st)) ELSE log]

RECURSIVE processBatch_importNodes(_, _, _, _, _, _, _)
\* the first loop of processBatch, from document i of the batch; s is [st, err, failAt, log]
processBatch_importNodes(s, base, batch, includeSource, chunk, first, i) ==
    IF i > Len(batch) \/ s.err # "" THEN s
    ELSE processBatch_importNodes(
             Logged(importNodes(s.st, base, batch[i], includeSource, s.failAt), s.log, "nodes",
                    chunk, first + i, s.st),
             base, batch, includeSource, chunk, first, i + 1)

RECURSIVE processBatch_importRelationships(_, _, _, _, _, _)
\* the second loop of processBatch
processBatch_importRelationships(s, base, batch, chunk, first, i) ==
    IF i > Len(batch) \/ s.err # "" THEN s
    ELSE processBatch_importRelationships(
             Logged(importRelationships(s.st, base, batch[i], s.failAt), s.log, "relationships",
                    chunk, first + i, s.st),
             base, batch, chunk, first, i + 1)

RECURSIVE PerDocument(_, _, _, _, _, _, _)
PerDocument(s, base, batch, includeSource, chunk, first, i) ==
    IF i > Len(batch) \/ s.err # "" THEN s
    ELSE LET n == Logged(importNodes(s.st, base, batch[i], includeSource, s.failAt), s.log,
                         "nodes", chunk, first + i, s.st)
             r == IF n.err # "" THEN n
                  ELSE Logged(importRelationships(n.st, base, batch[i], n.failAt), n.log,
                              "relationships", chunk, first + i, n.st)
         IN  PerDocument(r, base, batch, includeSource, chunk, first, i + 1)

\* a processBatch that writes each document whole, its nodes and then its relationships
processBatch_PerDocument(s, base, batch, includeSource, chunk, first) ==
    PerDocument(s, base, batch, includeSource, chunk, first, 1)

\* the batch is chunk number `chunk`; `first` documents of the input precede it
processBatch(s, base, batch, includeSource, chunk, first) ==
    processBatch_importRelationships(
        processBatch_importNodes(s, base, batch, includeSource, chunk, first, 1),
        base, batch, chunk, first, 1)

RECURSIVE AddGraphDocument_Batches(_, _, _, _, _, _, _)
\* for i := 0; i < len(docs); i += batchSize
AddGraphDocument_Batches(s, base, docs, includeSource, batchSize, i, chunk) ==
    IF i >= Len(docs) \/ s.err # "" THEN s
    ELSE LET end == IF i + batchSize > Len(docs) THEN Len(docs) ELSE i + batchSize
         IN  AddGraphDocument_Batches(
                 processBatch(s, base, SubSeq(docs, i + 1, end), includeSource, chunk, i),
                 base, docs, includeSource, batchSize, i + batchSize, chunk + 1)

\* an AddGraphDocument that imports one document at a time when BatchSize is not positive
Neo4j_AddGraphDocument_NoDefault(st, base, docs, mode, includeSource, batchSize, failAt) ==
    AddGraphDocument_Batches([st |-> st, err |-> "", failAt |-> failAt, log |-> <<>>], base, docs,
                             includeSource, IF batchSize <= 0 THEN 1 ELSE batchSize, 0, 1)

\* opts.MergeMode is not read on this path
Neo4j_AddGraphDocument(st, base, docs, mode, includeSource, batchSize, failAt) ==
    AddGraphDocument_Batches([st |-> st, err |-> "", failAt |-> failAt, log |-> <<>>], base, docs,
                             includeSource,
                             IF batchSize <= 0 THEN DefaultBatchSize ELSE batchSize, 0, 1)

(***************************************************************************)
(* ImportSpec: one AddGraphDocument call on the database earlier sessions  *)
(* left                                                                    *)
(***************************************************************************)
Doc(nodes, relationships) == [Nodes |-> nodes, Relationships |-> relationships]

ImportRel(sourceType, targetType, relType, properties) ==
    [Source |-> NewNode("1", sourceType), Target |-> NewNode("2", targetType),
     Type |-> relType, Properties |-> properties]

\* a document of one node; one whose relationship starts at the node of the first; one of
\* relationships only; one that writes both IDs again with other types and properties
ImportDocs ==
    {Doc(<<NodeOf("1", "Person", PropsA1)>>, <<>>),
     Doc(<<NodeOf("2", "Company", EmptyProps)>>,
         <<ImportRel("Person", "Company", "KNOWS", PropsA2)>>),
     Doc(<<>>, <<ImportRel("Person", "Per<backtick>son", "works at", PropsB2)>>),
     Doc(<<NodeOf("2", "Per<backtick>son", PropsB2), NodeOf("1", "Company", PropsA2)>>, <<>>)}

RECURSIVE SeqsUpTo(_, _)
\* the sequences over S of length at most n
SeqsUpTo(S, n) ==
    IF n = 0 THEN {<<>>}
    ELSE LET shorter == SeqsUpTo(S, n - 1)
         IN  shorter \cup {Append(q, x) : q \in shorter, x \in S}

ImportDocLists == SeqsUpTo(ImportDocs, MaxImportDocs)

\* 0: BatchSize not positive, the default applies; DefaultBatchSize is also what
\* NewOptions sets when the caller gives no WithBatchSize
BatchSizes == {0, 1, 2, DefaultBatchSize}

ImportFailPoints == 0 .. 3

AddGraphDocument ==
    /\ stLast.op = "none"
    /\ \E docs \in ImportDocLists, mode \in MergeModes, batchSize \in BatchSizes,
          failAt \in ImportFailPoints :
          LET res == Neo4j_AddGraphDocument(store, baseEntityLabel, docs, mode, FALSE, batchSize,
                                            failAt)
          IN  /\ store' = res.st
              /\ stLast' = [op |-> "AddGraphDocument", docs |-> docs, mode |-> mode,
                            batchSize |-> batchSize, failAt |-> failAt, err |-> res.err,
                            log |-> res.log, pre |-> store]
              /\ stOps' = stOps + 1
              /\ UNCHANGED <<baseEntityLabel, docVars, schemaVars, txVars, callVars>>

ImportNext == AddGraphDocument

ImportSpec == Init /\ [][ImportNext]_vars

(***************************************************************************)
(* C6: the merge mode on the import path                                   *)
(***************************************************************************)
NodeView(st, eid) == LET n == CHOOSE m \in st.nodes : m.eid = eid
                     IN  [labels |-> n.labels, props |-> n.props]

\* the graph a database holds, without the internal element ids
GraphOf(st) ==
    [nodes |-> {[labels |-> n.labels, props |-> n.props] : n \in st.nodes},
     nodeCount |-> Cardinality(st.nodes),
     rels |-> {[src |-> NodeView(st, r.src), tgt |-> NodeView(st, r.tgt), type |-> r.type,
                props |-> r.props] : r \in st.rels},
     relCount |-> Cardinality(st.rels)]

\* AddNodes followed by AddRelationships with the same mode
AddNodesThenRelationships(st, base, doc, mode) ==
    LET a == Neo4j_AddNodes(st, base, doc.Nodes, mode, 0)
    IN  IF a.err # "" THEN a ELSE Neo4j_AddRelationships(a.st, doc.Relationships, mode, 0)

ImportedOne == stLast.op = "AddGraphDocument" /\ Len(stLast.docs) = 1 /\ stLast.failAt = 0

\* C6 as stated: AddGraphDocument with MergeMode m on a document treats existing and
\* absent entities as the merge-mode table prescribes for m (Create on an existing node
\* fails and does not modify it, Update on an absent node does not create it) and leaves
\* the same graph, with the same outcome, as AddNodes followed by AddRelationships with m.
C6_AsStated ==
    ImportedOne =>
        LET doc == stLast.docs[1]
            expected == AddNodesThenRelationships(stLast.pre, baseEntityLabel, doc, stLast.mode)
        IN  /\ \A i \in 1 .. Len(doc.Nodes) :
                  /\ stLast.mode = MergeModeCreate /\ NodeInStore(stLast.pre, doc.Nodes[i].ID)
                     => stLast.err # "" /\ GraphOf(store) = GraphOf(stLast.pre)
                  /\ stLast.mode = MergeModeUpdate /\ ~NodeInStore(stLast.pre, doc.Nodes[i].ID)
                     => ~NodeInStore(store, doc.Nodes[i].ID)
            /\ GraphOf(store) = GraphOf(expected.st)
            /\ (stLast.err = "") = (expected.err = "")

(***************************************************************************)
(* C10: the order of the import writes                                     *)
(***************************************************************************)
EffectiveBatchSize(batchSize) == IF batchSize <= 0 THEN DefaultBatchSize ELSE batchSize

\* the chunk of the d-th document of the input
ChunkOf(d, batchSize) == ((d - 1) \div EffectiveBatchSize(batchSize)) + 1

EndpointIDs(doc) ==
    {doc.Relationships[i].Source.ID : i \in 1 .. Len(doc.Relationships)}
    \cup {doc.Relationships[i].Target.ID : i \in 1 .. Len(doc.Relationships)}

DocNodeIDs(doc) == {doc.Nodes[i].ID : i \in 1 .. Len(doc.Nodes)}

\* the log entry j is a relationship write one of whose endpoints document d introduces
\* as a node, d being the same or an earlier document of the same chunk
NeedsNodesOf(j, d) ==
    /\ stLast.log[j].kind = "relationships"
    /\ d <= stLast.log[j].doc
    /\ ChunkOf(d, stLast.batchSize) = ChunkOf(stLast.log[j].doc, stLast.batchSize)
    /\ EndpointIDs(stLast.docs[stLast.log[j].doc]) \cap DocNodeIDs(stLast.docs[d]) # {}

\* C10: in AddGraphDocument the import writes are issued chunk by chunk in input order,
\* within a chunk every node-import write before any relationship-import write, and every
\* endpoint that the same or an earlier document of the chunk introduces as a node is in
\* the database when the relationship write is attempted.
C10_NodesBeforeRelationships ==
    stLast.op = "AddGraphDocument" =>
        LET log == stLast.log
        IN  /\ \A j \in 1 .. Len(log) :
                  log[j].chunk = ChunkOf(log[j].doc, stLast.batchSize)
            /\ \A i, j \in 1 .. Len(log) : i < j =>
                  /\ log[i].chunk <= log[j].chunk
                  /\ log[i].chunk = log[j].chunk /\ log[i].kind = "relationships"
                     => log[j].kind = "relationships"
            /\ \A j \in 1 .. Len(log), d \in 1 .. Len(stLast.docs) : NeedsNodesOf(j, d) =>
                  /\ \E i \in 1 .. (j - 1) : log[i].kind = "nodes" /\ log[i].doc = d
                  /\ \A id \in DocNodeIDs(stLast.docs[d]) : NodeInStore(log[j].pre, id)

\* a call of two chunks that succeeded, with a relationship write whose endpoint an
\* earlier document of its chunk introduced
C10_Witness ==
    /\ stLast.op = "AddGraphDocument"
    /\ stLast.err = ""
    /\ \E i, j \in 1 .. Len(stLast.log) : stLast.log[i].chunk = 1 /\ stLast.log[j].chunk = 2
    /\ \E j \in 1 .. Len(stLast.log), d \in 1 .. Len(stLast.docs) :
          NeedsNodesOf(j, d) /\ d < stLast.log[j].doc

(***************************************************************************)
(* SchemaSpec: goroutines calling RefreshSchema, a goroutine reading the   *)
(* schema through GetSchema and GetStructuredSchema, and the database      *)
(* whose schema changes meanwhile                                          *)
(***************************************************************************)
Cache == [schemaCache |-> schemaCache, structuredSchema |-> structuredSchema]

\* the RefreshSchema call that holds schemaMux for writing
InFlight == IF schemaMux = "none" THEN NoRefresh ELSE <<schemaMux, refresh[schemaMux].call>>

RefreshCalls == refresh["r1"].call + refresh["r2"].call

SchemaInit ==
    /\ driver \in BOOLEAN
    /\ enhancedSchema \in BOOLEAN
    /\ schemaMux = "none"
    /\ schemaCache = ""
    /\ structuredSchema = NoSchema
    /\ db \in DbSchemas
    /\ refresh = [r \in Refreshers |-> IdleRefresher]
    /\ reader = IdleReader
    /\ DocIdle
    /\ StoreIdle
    /\ TxIdle
    /\ CallsIdle

\* if n.driver == nil { return ErrDriverNotInitialized }
RefreshSchema_Call(r) ==
    /\ refresh[r].pc \in {"idle", "done"}
    /\ RefreshCalls < MaxRefreshCalls
    /\ r = "r2" => refresh["r1"].call > 0    \* the goroutine that calls first is named r1
    /\ refresh' = [refresh EXCEPT ![r] =
          [IdleRefresher EXCEPT !.call = refresh[r].call + 1,
                                !.atCall = Cache,
                                !.pc = IF driver THEN "Lock" ELSE "done",
                                !.err = IF driver THEN "" ELSE "ErrDriverNotInitialized"]]
    /\ UNCHANGED <<driver, enhancedSchema, schemaMux, schemaCache, structuredSchema, db, reader>>

\* n.schemaMux.Lock()
RefreshSchema_Lock(r) ==
    /\ refresh[r].pc = "Lock"
    /\ schemaMux = "none"
    /\ schemaMux' = r
    /\ refresh' = [refresh EXCEPT ![r].pc = "nodeProps"]
    /\ UNCHANGED <<driver, enhancedSchema, schemaCache, structuredSchema, db, reader>>

\* an error return: the locals are gone, the deferred Unlock runs
RefreshFails(r, err, outcome) ==
    /\ refresh' = [refresh EXCEPT ![r].pc = "done", ![r].err = err, ![r].nodeResult = <<>>,
                                  ![r].relPropsResult = <<>>, ![r].relsResult = <<>>,
                                  ![r].cause = outcome]
    /\ schemaMux' = "none"

RefreshSchema_NodeProps(r) ==
    /\ refresh[r].pc = "nodeProps"
    /\ \E outcome \in QueryOutcomes :
          CASE outcome = "ok" ->
                  /\ refresh' = [refresh EXCEPT ![r].pc = "relProps",
                                                ![r].nodeResult = db.nodes]
                  /\ UNCHANGED schemaMux
            [] outcome # "ok" /\ isAPOCError(ErrorText(outcome)) ->
                  RefreshFails(r, "ErrAPOCNotAvailable", outcome)
            [] OTHER -> RefreshFails(r, "failed to query node properties", outcome)
    /\ UNCHANGED <<driver, enhancedSchema, schemaCache, structuredSchema, db, reader>>

RefreshSchema_RelProps(r) ==
    /\ refresh[r].pc = "relProps"
    /\ \E outcome \in QueryOutcomes :
          IF outcome = "ok"
          THEN /\ refresh' = [refresh EXCEPT ![r].pc = "relationships",
                                             ![r].relPropsResult = db.relProps]
               /\ UNCHANGED schemaMux
          ELSE RefreshFails(r, "failed to query relationship properties", outcome)
    /\ UNCHANGED <<driver, enhancedSchema, schemaCache, structuredSchema, db, reader>>

RefreshSchema_Relationships(r) ==
    /\ refresh[r].pc = "relationships"
    /\ \E outcome \in QueryOutcomes :
          IF outcome = "ok"
          THEN /\ refresh' = [refresh EXCEPT ![r].pc = "metadata",
                                             ![r].relsResult = db.rels]
               /\ UNCHANGED schemaMux
          ELSE RefreshFails(r, "failed to query relationships", outcome)
    /\ UNCHANGED <<driver, enhancedSchema, schemaCache, structuredSchema, db, reader>>

\* SHOW CONSTRAINTS and the index query, best effort; then the two assignments and the
\* return.  What a call recorded of the cache is dropped once another call replaces it.
RefreshSchema_Commit(r) ==
    /\ refresh[r].pc = "metadata"
    /\ \E constraints \in QueryOutcomes, indexes \in QueryOutcomes :
          LET metadata == Metadata(constraints, indexes, db)
              built == BuildStructuredSchema(refresh[r].nodeResult, refresh[r].relPropsResult,
                                             refresh[r].relsResult, metadata)
          IN  \E labelOrder \in KeyOrders(built.node_props),
                 relTypeOrder \in KeyOrders(built.rel_props) :
                  LET new == CommitSchema(Cache, built,
                                          formatSchema(built, labelOrder, relTypeOrder))
                  IN  /\ schemaCache' = new.schemaCache
                      /\ structuredSchema' = new.structuredSchema
                      /\ refresh' = [q \in Refreshers |->
                            IF q = r
                            THEN [refresh[r] EXCEPT !.pc = "done", !.err = "", !.built = built,
                                                    !.unavailable =
                                                        (IF constraints = "ok" THEN {}
                                                         ELSE {"constraint"})
                                                        \cup (IF indexes = "ok" THEN {}
                                                              ELSE {"index"}),
                                                    !.others = FALSE, !.nodeResult = <<>>,
                                                    !.relPropsResult = <<>>,
                                                    !.relsResult = <<>>]
                            ELSE [refresh[q] EXCEPT !.others = TRUE, !.built = NoSchema,
                                                    !.atCall = NewCache, !.unavailable = {}]]
    /\ schemaMux' = "none"
    /\ UNCHANGED <<driver, enhancedSchema, db, reader>>

\* the field a getter reads
Cached(op) == IF op = "GetSchema" THEN schemaCache ELSE structuredSchema

\* the reader calls op: first one of the two getters, then the other
ReadCall(op) ==
    /\ \/ reader.pc = "idle"
          /\ reader' = [reader EXCEPT !.pc = "first",
                           !.first = [NoRead EXCEPT !.op = op, !.during = InFlight,
                                                    !.atIssue = Cached(op)]]
       \/ reader.pc = "between" /\ reader.first.op # op
          /\ reader' = [reader EXCEPT !.pc = "second",
                           !.second = [NoRead EXCEPT !.op = op, !.during = InFlight,
                                                     !.atIssue = Cached(op)]]
    /\ UNCHANGED <<driver, enhancedSchema, schemaMux, schemaCache, structuredSchema, db, refresh>>

\* RLock, read the field, RUnlock: possible while no RefreshSchema holds the lock
ReadReturn(op, value) ==
    /\ schemaMux = "none"
    /\ \/ reader.pc = "first" /\ reader.first.op = op
          /\ reader' = [reader EXCEPT !.pc = "between", !.first.value = value,
                                      !.first.returnedDuring = InFlight]
       \/ reader.pc = "second" /\ reader.second.op = op
          /\ reader' = [reader EXCEPT !.pc = "done", !.second.value = value,
                                      !.second.returnedDuring = InFlight]
    /\ UNCHANGED <<driver, enhancedSchema, schemaMux, schemaCache, structuredSchema, db, refresh>>

GetSchema_Call == ReadCall("GetSchema") /\ UNCHANGED <<docVars, storeVars, txVars, callVars>>

GetSchema == ReadReturn("GetSchema", Cached("GetSchema")) /\ UNCHANGED <<docVars, storeVars, txVars, callVars>>

GetStructuredSchema_Call == ReadCall("GetStructuredSchema") /\ UNCHANGED <<docVars, storeVars, txVars, callVars>>

GetStructuredSchema ==
    ReadReturn("GetStructuredSchema", Cached("GetStructuredSchema"))
    /\ UNCHANGED <<docVars, storeVars, txVars, callVars>>

\* another client of the database changes what the metadata queries report
DbChange ==
    /\ db = DbPersons
    /\ db' = DbCompanies
    /\ UNCHANGED <<driver, enhancedSchema, schemaMux, schemaCache, structuredSchema, refresh, reader>>
    /\ UNCHANGED <<docVars, storeVars, txVars, callVars>>

RefreshSchema(r) ==
    /\ \/ RefreshSchema_Call(r)
       \/ RefreshSchema_Lock(r)
       \/ RefreshSchema_NodeProps(r)
       \/ RefreshSchema_RelProps(r)
       \/ RefreshSchema_Relationships(r)
       \/ RefreshSchema_Commit(r)
    /\ UNCHANGED <<docVars, storeVars, txVars, callVars>>

\* RefreshSpec: the refreshing goroutines and the database alone
RefreshNext ==
    \/ \E r \in Refreshers : RefreshSchema(r)
    \/ DbChange

RefreshSpec == SchemaInit /\ [][RefreshNext]_vars

SchemaNext ==
    \/ \E r \in Refreshers : RefreshSchema(r)
    \/ GetSchema_Call
    \/ GetSchema
    \/ GetStructuredSchema_Call
    \/ GetStructuredSchema
    \/ DbChange

SchemaSpec == SchemaInit /\ [][SchemaNext]_vars

(***************************************************************************)
(* C7, C8, C9: what readers of the schema cache obtain                     *)
(***************************************************************************)
\* the rendering and the map belong to one snapshot: the pair newNeo4j sets up, or a
\* rendering of that map
Consistent(rendering, schema) ==
    \/ rendering = "" /\ schema = NoSchema
    \/ schema # NoSchema /\ rendering \in Renderings(schema)

ReadValue(op) == IF reader.first.op = op THEN reader.first.value ELSE reader.second.value

\* C7 as stated: a reader that calls GetSchema() and GetStructuredSchema() while
\* RefreshSchema() calls run concurrently, a refresh completing between the two reads
\* included, never obtains a string rendered from another snapshot than the map it obtains.
C7_AsStated ==
    reader.pc = "done" => Consistent(ReadValue("GetSchema"), ReadValue("GetStructuredSchema"))

\* C8: the cached pair is replaced only by a successful RefreshSchema, both members
\* together: a call that returned an error left schemaCache and structuredSchema as they
\* were when it was called, a call that returned nil left the map it built and a rendering
\* of that map (no other call having replaced the pair since), and whenever no refresh
\* holds the lock the cached string is a rendering of the cached map.
C8_CacheReplacedTogetherOnSuccess ==
    /\ \A r \in Refreshers : refresh[r].pc = "done" /\ ~refresh[r].others =>
          IF refresh[r].err # ""
          THEN Cache = refresh[r].atCall
          ELSE /\ structuredSchema = refresh[r].built
               /\ schemaCache \in Renderings(refresh[r].built)
    /\ schemaMux = "none" => Consistent(schemaCache, structuredSchema)

\* a refresh failed at its third query, after an earlier refresh had filled the cache and
\* the database had changed: the database has node properties the cache lacks
C8_Witness ==
    \E r \in Refreshers :
        /\ refresh[r].pc = "done"
        /\ refresh[r].err = "failed to query relationships"
        /\ ~refresh[r].others
        /\ refresh[r].atCall.structuredSchema # NoSchema
        /\ RecordsToMap(db.nodes, "labels") # refresh[r].atCall.structuredSchema.node_props

ReadsReturned ==
    (IF reader.pc \in {"between", "second", "done"} THEN {reader.first} ELSE {})
    \cup (IF reader.pc = "done" THEN {reader.second} ELSE {})

\* C9 as stated: a read issued while a RefreshSchema is in flight completes without
\* waiting for that refresh to finish (it returns while the refresh is still in flight)
\* and returns the member of the pair that was cached when it was issued.
C9_AsStated ==
    \A read \in ReadsReturned : read.during # NoRefresh =>
        /\ read.returnedDuring = read.during
        /\ read.value = read.atIssue

(***************************************************************************)
(* C11: the chunks of AddGraphDocument                                     *)
(***************************************************************************)
\* the documents (positions in the input) the log shows in chunk c
ChunkDocs(log, c) == {log[j].doc : j \in {k \in 1 .. Len(log) : log[k].chunk = c}}

LogChunks(log) == {log[j].chunk : j \in 1 .. Len(log)}

\* how many statements of the kind the log holds for document d
Writes(log, kind, d) ==
    Cardinality({j \in 1 .. Len(log) : log[j].kind = kind /\ log[j].doc = d})

\* C11: AddGraphDocument cuts the N input documents into consecutive chunks in input
\* order, every document in exactly one chunk, every chunk but the last of exactly B
\* documents and the last of 1 to B, B being BatchSize when positive and 100 otherwise;
\* a call without error sends the node import of every document with nodes and the
\* relationship import of every document with relationships exactly once.
C11_ChunksOfBatchSize ==
    stLast.op = "AddGraphDocument" =>
        LET log == stLast.log
            N == Len(stLast.docs)
            B == IF stLast.batchSize > 0 THEN stLast.batchSize ELSE 100
        IN  /\ \A j \in 1 .. Len(log) :
                  /\ log[j].doc \in 1 .. N
                  /\ log[j].chunk >= 1
                  /\ (log[j].chunk - 1) * B < log[j].doc
                  /\ log[j].doc <= log[j].chunk * B
            /\ \A c1, c2 \in LogChunks(log) : c1 < c2 =>
                  \A d1 \in ChunkDocs(log, c1), d2 \in ChunkDocs(log, c2) : d1 < d2
            /\ stLast.err = "" =>
                  /\ \A d \in 1 .. N :
                        /\ Cardinality({c \in LogChunks(log) : d \in ChunkDocs(log, c)}) = 1
                        /\ Writes(log, "nodes", d)
                             = (IF Len(stLast.docs[d].Nodes) > 0 THEN 1 ELSE 0)
                        /\ Writes(log, "relationships", d)
                             = (IF Len(stLast.docs[d].Relationships) > 0 THEN 1 ELSE 0)
                  /\ \A c \in LogChunks(log) :
                        /\ Cardinality(ChunkDocs(log, c)) \in 1 .. B
                        /\ (\E c2 \in LogChunks(log) : c < c2)
                           => Cardinality(ChunkDocs(log, c)) = B
                  /\ N > 0 => LogChunks(log) = 1 .. (((N - 1) \div B) + 1)

\* a call without error over three documents in chunks of two: a full chunk and a last
\* chunk of one document
C11_Witness ==
    /\ stLast.op = "AddGraphDocument"
    /\ stLast.err = ""
    /\ Len(stLast.docs) = 3
    /\ stLast.batchSize = 2
    /\ ChunkDocs(stLast.log, 1) = {1, 2}
    /\ ChunkDocs(stLast.log, 2) = {3}

(***************************************************************************)
(* TransactionManager.AddGraphDocumentWithTransaction.  WithTransaction    *)
(* hands the whole import to session.ExecuteWrite: one transaction for all *)
(* batches, committed when the function returns nil and rolled back when   *)
(* it returns an error; ExecuteWrite runs the function again after an      *)
(* error the driver classifies as transient.  tm.tx is the database as the *)
(* statements of the open transaction see it.  The caller cancels ctx at   *)
(* any moment of the call.                                                 *)
(***************************************************************************)
MaxTxDocs == 3

\* how many times ExecuteWrite runs the transaction function at most
MaxAttempts == 2

\* how many statements of a call the database or the driver fails on its own
MaxTxFaults == 1

TxDocs ==
    {Doc(<<NodeOf("1", "Person", PropsA1)>>, <<>>),
     Doc(<<NodeOf("2", "Company", EmptyProps)>>,
         <<ImportRel("Person", "Company", "KNOWS", PropsA2)>>)}

TxDocLists == SeqsUpTo(TxDocs, MaxTxDocs)

ctx_Err == "context canceled"

\* case <-ctx.Done(): with a context that is never seen as done
ctx_Done_Never(t) == FALSE

\* case <-ctx.Done()
ctx_Done(t) == t.ctxDone

\* the checkpoint of the position `at` was passed; done: whether ctx was cancelled then
Checked(t, at) == [t EXCEPT !.checks = @ \cup {[at |-> at, done |-> t.ctxDone]}]

\* return ctx.Err() at the checkpoint of the position `at`
Cancelled(t, at) ==
    [t EXCEPT !.pc = "return", !.fnErr = ctx_Err, !.observed = TRUE, !.observedAt = at,
              !.observedLog = Len(t.log)]

\* what tx.Run can answer: the statement takes effect, the database or the driver fails
\* it (with an error ExecuteWrite retries or one it does not), the cancelled context ends
\* it, or the database refuses a write after a schema change of the same transaction
RunOutcomes(t, write) ==
    {"ok"}
    \cup (IF t.faults < MaxTxFaults THEN {"error", "transient"} ELSE {})
    \cup (IF t.ctxDone THEN {ctx_Err} ELSE {})
    \cup (IF write /\ t.schemaTx THEN {"ForbiddenDueToTransactionType"} ELSE {})

Faulted(t, outcome) ==
    IF outcome \in {"error", "transient"} THEN [t EXCEPT !.faults = @ + 1] ELSE t

\* session.ExecuteWrite starts the transaction and calls the function
ExecuteWrite_Begin(t, base) ==
    [t EXCEPT !.pc = IF base THEN "constraint" ELSE "batch",
              !.tx = t.pre, !.schemaTx = FALSE, !.attempt = @ + 1,
              !.i = 0, !.chunk = 1, !.j = 1, !.checks = {}, !.fnErr = "",
              !.kept = [k |-> 0, st |-> t.pre]]

\* the batch processDocumentsInTransaction is at: docs[i:end]
TxBatch(t) ==
    SubSeq(t.docs, t.i + 1, IF t.i + t.batchSize > Len(t.docs) THEN Len(t.docs)
                            ELSE t.i + t.batchSize)

\* the statement of importNodesInTransaction on the open transaction
importNodesInTransaction(txst, base, doc, outcome) ==
    IF Len(doc.Nodes) = 0 THEN [st |-> txst, err |-> "", issued |-> FALSE]
    ELSE IF outcome # "ok" THEN [st |-> txst, err |-> outcome, issued |-> TRUE]
    ELSE LET q == Commit(txst, getNodeImportQuery(txst, base, FALSE, doc))
         IN  [st |-> q.st, err |-> q.err, issued |-> TRUE]

\* the statement of importRelationshipsInTransaction on the open transaction
importRelationshipsInTransaction(txst, base, doc, outcome) ==
    IF Len(doc.Relationships) = 0 THEN [st |-> txst, err |-> "", issued |-> FALSE]
    ELSE IF outcome # "ok" THEN [st |-> txst, err |-> outcome, issued |-> TRUE]
    ELSE LET q == Commit(txst, getRelImportQuery(txst, base, doc.Relationships))
         IN  [st |-> q.st, err |-> q.err, issued |-> TRUE]

\* the record of one import statement sent in the transaction: its kind, chunk and
\* document, the run of the function that sent it, the checkpoints passed since the
\* statement before it, and whether ctx was cancelled when it was sent
TxLogEntry(t, kind) ==
    [kind |-> kind, chunk |-> t.chunk, doc |-> t.i + t.j, attempt |-> t.attempt,
     checks |-> t.checks, ctxDone |-> t.ctxDone]

\* the call after the import statement of the kind answered r
TxImported(t, kind, r, next) ==
    LET logged == IF r.issued
                  THEN [t EXCEPT !.log = Append(@, TxLogEntry(t, kind)), !.checks = {}]
                  ELSE t
    IN  IF r.err # ""
        THEN [logged EXCEPT !.pc = "return", !.fnErr = r.err]
        ELSE [logged EXCEPT !.pc = next, !.tx = r.st, !.j = @ + 1]

(***************************************************************************)
(* TxSpec: one AddGraphDocumentWithTransaction call, its context cancelled *)
(* at some moment or never                                                 *)
(***************************************************************************)
TxStep(t) ==
    /\ tm' = t
    /\ UNCHANGED <<storeVars, docVars, schemaVars, callVars>>

AddGraphDocumentWithTransaction_Call ==
    /\ tm.pc = "idle"
    /\ \E docs \in TxDocLists, batchSize \in {0, 1, 2} :
          LET call == [pc |-> "call", docs |-> docs,
                       batchSize |-> IF batchSize <= 0 THEN DefaultBatchSize ELSE batchSize,
                       ctxDone |-> FALSE, attempt |-> 0, faults |-> 0, pre |-> store,
                       tx |-> store, schemaTx |-> FALSE, i |-> 0, chunk |-> 1, j |-> 1,
                       log |-> <<>>, checks |-> {}, fnErr |-> "", err |-> "",
                       observed |-> FALSE, observedAt |-> "", observedLog |-> 0,
                       kept |-> [k |-> 0, st |-> store]]
          IN  IF ~driver
              THEN TxStep([call EXCEPT !.pc = "done", !.err = "ErrDriverNotInitialized"])
              ELSE TxStep(ExecuteWrite_Begin(call, baseEntityLabel))

\* SHOW CONSTRAINTS and, when it reports none or fails, CREATE CONSTRAINT IF NOT EXISTS
ensureBaseEntityConstraintTx ==
    /\ tm.pc = "constraint"
    /\ \E show \in RunOutcomes(tm, FALSE) :
          LET t == Faulted(tm, show)
          IN  IF show = "ok" /\ t.tx.constraint
              THEN TxStep([t EXCEPT !.pc = "batch"])
              ELSE \E create \in RunOutcomes(t, FALSE) :
                      LET u == Faulted(t, create)
                      IN  IF create # "ok" \/ show # "ok"
                          THEN TxStep([u EXCEPT !.pc = "return",
                                       !.fnErr = "failed to ensure base entity constraint"])
                          ELSE IF UniqueViolated([u.tx EXCEPT !.constraint = TRUE])
                          THEN TxStep([u EXCEPT !.pc = "return",
                                       !.fnErr = "failed to ensure base entity constraint"])
                          ELSE TxStep([u EXCEPT !.pc = "batch", !.tx.constraint = TRUE,
                                                !.schemaTx = TRUE])

\* for i := 0; i < len(docs); i += batchSize { select { case <-ctx.Done(): ... } ... }
processDocumentsInTransaction ==
    /\ tm.pc = "batch"
    /\ IF tm.i >= Len(tm.docs) THEN TxStep([tm EXCEPT !.pc = "return", !.fnErr = ""])
       ELSE IF ctx_Done(tm) THEN TxStep(Cancelled(tm, "batch"))
       ELSE TxStep([Checked(tm, "batch") EXCEPT !.pc = "nodes", !.j = 1])

\* the head of the first loop of processBatchInTransaction
processBatchInTransaction_Nodes ==
    /\ tm.pc = "nodes"
    /\ IF tm.j > Len(TxBatch(tm)) THEN TxStep([tm EXCEPT !.pc = "relationships", !.j = 1])
       ELSE IF ctx_Done(tm) THEN TxStep(Cancelled(tm, "nodes"))
       ELSE TxStep([Checked(tm, "nodes") EXCEPT !.pc = "importNodes"])

importNodesInTransaction_Run ==
    /\ tm.pc = "importNodes"
    /\ \E outcome \in RunOutcomes(tm, TRUE) :
          LET doc == TxBatch(tm)[tm.j]
              o == IF Len(doc.Nodes) = 0 THEN "ok" ELSE outcome
          IN  TxStep(TxImported(Faulted(tm, o), "nodes",
                                importNodesInTransaction(tm.tx, baseEntityLabel, doc, o),
                                "nodes"))

\* the head of the second loop of processBatchInTransaction; after it the batch is done
processBatchInTransaction_Relationships ==
    /\ tm.pc = "relationships"
    /\ IF tm.j > Len(TxBatch(tm))
       THEN TxStep([tm EXCEPT !.pc = "batch", !.i = @ + tm.batchSize, !.chunk = @ + 1,
                              !.j = 1, !.kept = [k |-> tm.chunk, st |-> tm.tx]])
       ELSE IF ctx_Done(tm) THEN TxStep(Cancelled(tm, "relationships"))
       ELSE TxStep([Checked(tm, "relationships") EXCEPT !.pc = "importRelationships"])

importRelationshipsInTransaction_Run ==
    /\ tm.pc = "importRelationships"
    /\ \E outcome \in RunOutcomes(tm, TRUE) :
          LET doc == TxBatch(tm)[tm.j]
              o == IF Len(doc.Relationships) = 0 THEN "ok" ELSE outcome
          IN  TxStep(TxImported(Faulted(tm, o), "relationships",
                                importRelationshipsInTransaction(tm.tx, baseEntityLabel, doc, o),
                                "relationships"))

\* the function returned nil: ExecuteWrite commits
ExecuteWrite_Commit ==
    /\ tm.pc = "return"
    /\ tm.fnErr = ""
    /\ tm' = [tm EXCEPT !.pc = "done", !.err = ""]
    /\ store' = tm.tx
    /\ UNCHANGED <<baseEntityLabel, stLast, stOps, docVars, schemaVars, callVars>>

\* the function returned an error: ExecuteWrite rolls the transaction back and returns
\* the error, or runs the function again when the error is transient
ExecuteWrite_Rollback ==
    /\ tm.pc = "return"
    /\ tm.fnErr # ""
    /\ \/ TxStep([tm EXCEPT !.pc = "done", !.err = tm.fnErr, !.tx = tm.pre])
       \/ /\ tm.fnErr = "transient"
          /\ tm.attempt < MaxAttempts
          /\ TxStep(ExecuteWrite_Begin(tm, baseEntityLabel))

\* the caller cancels ctx
Cancel ==
    /\ tm.pc \notin {"idle", "done"}
    /\ ~tm.ctxDone
    /\ TxStep([tm EXCEPT !.ctxDone = TRUE])

TxNext ==
    \/ AddGraphDocumentWithTransaction_Call
    \/ ensureBaseEntityConstraintTx
    \/ processDocumentsInTransaction
    \/ processBatchInTransaction_Nodes
    \/ importNodesInTransaction_Run
    \/ processBatchInTransaction_Relationships
    \/ importRelationshipsInTransaction_Run
    \/ ExecuteWrite_Commit
    \/ ExecuteWrite_Rollback
    \/ Cancel

TxSpec == Init /\ [][TxNext]_vars

(***************************************************************************)
(* C12: the cancellation checkpoints                                       *)
(***************************************************************************)
\* the checkpoints passed by the call: before its statements and since the last one
ChecksPassed == tm.checks \cup UNION {tm.log[j].checks : j \in 1 .. Len(tm.log)}

\* C12: AddGraphDocumentWithTransaction checks for cancellation between batches and
\* between the node phase and the relationship phase of a batch; a checkpoint reached
\* with the context cancelled is not passed but returns the cancellation error, which
\* the call returns, and the call sends no node or relationship import after it.
C12_CancellationCheckpoints ==
    tm.pc \notin {"idle"} =>
        /\ \A c \in ChecksPassed : ~c.done
        /\ \A j \in 2 .. Len(tm.log) :
              LET a == tm.log[j - 1]
                  b == tm.log[j]
              IN  a.attempt = b.attempt =>
                     /\ a.chunk # b.chunk => \E c \in b.checks : c.at = "batch"
                     /\ a.chunk = b.chunk /\ a.kind = "nodes" /\ b.kind = "relationships"
                        => \E c \in b.checks : c.at = "relationships"
        /\ tm.observed =>
              /\ Len(tm.log) = tm.observedLog
              /\ tm.pc \in {"return", "done"}
              /\ tm.fnErr = ctx_Err
              /\ tm.pc = "done" => tm.err = ctx_Err

\* a call that sent imports, saw the cancellation at the checkpoint between the phases
\* of a batch or between two batches, and returned
C12_Witness ==
    /\ tm.pc = "done"
    /\ tm.observed
    /\ tm.observedAt \in {"relationships", "batch"}
    /\ tm.observedLog > 0
    /\ tm.err = ctx_Err
    /\ \E j \in 1 .. Len(tm.log) : tm.log[j].kind = "relationships"

(***************************************************************************)
(* C13: the batches processed before a cancellation                        *)
(***************************************************************************)
\* the call returned the cancellation error a checkpoint raised after one batch or
\* more had been processed whole
CancelledAfterBatches == tm.pc = "done" /\ tm.observed /\ tm.err = ctx_Err /\ tm.kept.k >= 1

\* C13 as stated: when AddGraphDocumentWithTransaction is aborted by a cancellation seen
\* at a checkpoint after k >= 1 batches were processed whole, the nodes and relationships
\* written for those k batches are in the database after the call returns.
C13_AsStated ==
    CancelledAfterBatches =>
        /\ \A n \in tm.kept.st.nodes :
              \E m \in store.nodes : m.labels = n.labels /\ m.props = n.props
        /\ Cardinality(store.nodes) >= Cardinality(tm.kept.st.nodes)
        /\ Cardinality(store.rels) >= Cardinality(tm.kept.st.rels)

(***************************************************************************)
(* C14: the writes of one batch                                            *)
(***************************************************************************)
NumChunks(n, batchSize) ==
    IF n = 0 THEN 0 ELSE ((n - 1) \div EffectiveBatchSize(batchSize)) + 1

\* the first k chunks of the input of the last call
FirstChunks(k) ==
    LET n == k * EffectiveBatchSize(stLast.batchSize)
    IN  SubSeq(stLast.docs, 1, IF n > Len(stLast.docs) THEN Len(stLast.docs) ELSE n)

\* the database after the first k chunks of the last call were written whole
AfterChunks(k) ==
    Neo4j_AddGraphDocument(stLast.pre, baseEntityLabel, FirstChunks(k), stLast.mode, FALSE,
                           stLast.batchSize, 0)

\* C14 as stated: after AddGraphDocument returns an error raised inside batch k, the
\* database holds every write of batch k or none of them (with the batches before k
\* whole), never only the node writes or only the writes of some documents of batch k.
C14_AsStated ==
    stLast.op = "AddGraphDocument" /\ stLast.err # "" =>
        \E k \in 0 .. NumChunks(Len(stLast.docs), stLast.batchSize) :
            /\ AfterChunks(k).err = ""
            /\ GraphOf(AfterChunks(k).st) = GraphOf(store)

(***************************************************************************)
(* Neo4j.RemoveNode, RemoveNodes, RemoveRelationship, RemoveRelationships  *)
(***************************************************************************)
\* (n)--(): the node has a relationship, in either direction
HasRelationship(st, eid) == \E r \in st.rels : r.src = eid \/ r.tgt = eid

\* a DETACH DELETE that deletes the nodes and keeps their relationships
CypherDetachDelete_NodesOnly(st, eids) ==
    [st EXCEPT !.nodes = {n \in @ : n.eid \notin eids}]

\* DETACH DELETE n on the bound nodes: the nodes and every relationship of theirs
CypherDetachDelete(st, eids) ==
    [st EXCEPT !.nodes = {n \in @ : n.eid \notin eids},
               !.rels = {r \in @ : r.src \notin eids /\ r.tgt \notin eids}]

\* WHERE NOT (n)--() DELETE n on the bound nodes
CypherDeleteUnrelated(st, eids) ==
    [st EXCEPT !.nodes = {n \in @ : n.eid \notin eids \/ HasRelationship(st, n.eid)}]

\* MATCH (n {id: $id}) followed by the delete clause the option selects
RemoveNodeQuery(st, nodeID, cascadeDelete) ==
    LET m == Eids(MatchNodes(st, {}, nodeID))
    IN  IF cascadeDelete THEN CypherDetachDelete(st, m) ELSE CypherDeleteUnrelated(st, m)

\* a RemoveNode that detaches whatever CascadeDelete says
Neo4j_RemoveNode_AlwaysDetach(st, nodeID, cascadeDelete, failAt) ==
    IF failAt = 1 THEN [st |-> st, err |-> "failed to remove node"]
    ELSE [st |-> RemoveNodeQuery(st, nodeID, TRUE), err |-> ""]

Neo4j_RemoveNode(st, nodeID, cascadeDelete, failAt) ==
    IF failAt = 1 THEN [st |-> st, err |-> "failed to remove node"]
    ELSE [st |-> RemoveNodeQuery(st, nodeID, cascadeDelete), err |-> ""]

RECURSIVE RemoveNodesRows(_, _, _)
\* the rows of UNWIND $ids AS id, in order
RemoveNodesRows(st, nodeIDs, cascadeDelete) ==
    IF nodeIDs = <<>> THEN st
    ELSE RemoveNodesRows(RemoveNodeQuery(st, Head(nodeIDs), cascadeDelete), Tail(nodeIDs),
                         cascadeDelete)

Neo4j_RemoveNodes(st, nodeIDs, cascadeDelete, failAt) ==
    IF failAt = 1 THEN [st |-> st, err |-> "failed to remove nodes"]
    ELSE [st |-> RemoveNodesRows(st, nodeIDs, cascadeDelete), err |-> ""]

\* MATCH (s {id: $sourceId})-[r:T]->(t {id: $targetId}) DELETE r
Neo4j_RemoveRelationship(st, sourceID, targetID, relType, failAt) ==
    IF failAt = 1 THEN [st |-> st, err |-> "failed to remove relationship"]
    ELSE [st |-> [st EXCEPT !.rels = @ \ MatchRels(st, sourceID, relType, targetID)],
          err |-> ""]

RECURSIVE RemoveRelationships_Loop(_, _, _)
\* for _, rel := range relationships; s is [st, err, attempted], attempted the
\* identifiers RemoveRelationship was called with so far
RemoveRelationships_Loop(s, relationships, failAt) ==
    IF relationships = <<>> \/ s.err # "" THEN s
    ELSE LET rel == Head(relationships)
             r == Neo4j_RemoveRelationship(s.st, rel.SourceID, rel.TargetID, rel.Type, failAt)
         IN  RemoveRelationships_Loop(
                 [st |-> r.st, err |-> r.err, attempted |-> Append(s.attempted, rel)],
                 Tail(relationships), After(failAt))

\* a RemoveRelationships that undoes its removals when one of them fails
Neo4j_RemoveRelationships_AllOrNothing(st, relationships, failAt) ==
    LET r == RemoveRelationships_Loop([st |-> st, err |-> "", attempted |-> <<>>],
                                      relationships, failAt)
    IN  IF r.err # "" THEN [r EXCEPT !.st = st] ELSE r

\* failAt: which RemoveRelationship call of the loop the driver fails (0: none)
Neo4j_RemoveRelationships(st, relationships, failAt) ==
    RemoveRelationships_Loop([st |-> st, err |-> "", attempted |-> <<>>], relationships, failAt)

(***************************************************************************)
(* RemoveSpec: callers of the removal methods, on databases that AddNodes  *)
(* and AddRelationships wrote                                              *)
(***************************************************************************)
MaxRemoveOps == 2

\* the relationships of the databases RemoveSpec starts from
RemoveSeedRels ==
    {<<>>,
     <<RelOf("1", "2", "KNOWS", PropsA1)>>,
     <<RelOf("1", "2", "KNOWS", PropsA1), RelOf("2", "2", "KNOWS", EmptyProps)>>,
     <<RelOf("1", "2", "KNOWS", PropsA1), RelOf("1", "2", "LIKES", EmptyProps)>>}

\* nodes 1 and 2, the relationships, and then (extra) a second node with ID 1, of
\* another type and without relationships
RemoveStore(rels, extra) ==
    LET a == Neo4j_AddNodes(EmptyStore, FALSE,
                            <<NodeOf("1", "Person", PropsA1), NodeOf("2", "Person", EmptyProps)>>,
                            MergeModeUpsert, 0).st
        b == Neo4j_AddRelationships(a, rels, MergeModeUpsert, 0).st
    IN  IF extra
        THEN Neo4j_AddNodes(b, FALSE, <<NodeOf("1", "Company", EmptyProps)>>, MergeModeUpsert, 0).st
        ELSE b

RemoveNodeIDs == {"1", "2", "3"}

RemoveNodeIDLists == {<<"1">>, <<"1", "2">>, <<"2", "2">>, <<"3", "1">>}

RemoveIdentifiers ==
    {[SourceID |-> "1", TargetID |-> "2", Type |-> "KNOWS"],
     [SourceID |-> "2", TargetID |-> "2", Type |-> "KNOWS"],
     [SourceID |-> "1", TargetID |-> "2", Type |-> "LIKES"]}

RemoveIdentifierLists ==
    {<<>>} \cup {<<a>> : a \in RemoveIdentifiers}
    \cup {<<a, b>> : a \in {[SourceID |-> "1", TargetID |-> "2", Type |-> "KNOWS"]},
                    b \in RemoveIdentifiers}

RemoveInit ==
    /\ baseEntityLabel = FALSE
    /\ \E rels \in RemoveSeedRels, extra \in BOOLEAN : store = RemoveStore(rels, extra)
    /\ stLast = NoCall
    /\ stOps = 0
    /\ DocIdle
    /\ SchemaIdle
    /\ TxIdle
    /\ CallsIdle

RemoveCall(call, res) ==
    /\ stOps < MaxRemoveOps
    /\ store' = res.st
    /\ stLast' = call @@ [err |-> res.err, pre |-> store]
    /\ stOps' = stOps + 1
    /\ UNCHANGED <<baseEntityLabel, docVars, schemaVars, txVars, callVars>>

RemoveNode ==
    \E nodeID \in RemoveNodeIDs, cascadeDelete \in BOOLEAN, failAt \in {0, 1} :
        RemoveCall([op |-> "RemoveNode", nodeIDs |-> <<nodeID>>, cascadeDelete |-> cascadeDelete,
                    failAt |-> failAt],
                   Neo4j_RemoveNode(store, nodeID, cascadeDelete, failAt))

RemoveNodes ==
    \E nodeIDs \in RemoveNodeIDLists, cascadeDelete \in BOOLEAN, failAt \in {0, 1} :
        RemoveCall([op |-> "RemoveNodes", nodeIDs |-> nodeIDs, cascadeDelete |-> cascadeDelete,
                    failAt |-> failAt],
                   Neo4j_RemoveNodes(store, nodeIDs, cascadeDelete, failAt))

RemoveRelationship ==
    \E id \in RemoveIdentifiers, failAt \in {0, 1} :
        RemoveCall([op |-> "RemoveRelationship", id |-> id, failAt |-> failAt],
                   Neo4j_RemoveRelationship(store, id.SourceID, id.TargetID, id.Type, failAt))

RemoveRelationships ==
    \E relationships \in RemoveIdentifierLists, failAt \in FailPoints :
        /\ failAt <= Len(relationships)
        /\ LET r == Neo4j_RemoveRelationships(store, relationships, failAt)
           IN  RemoveCall([op |-> "RemoveRelationships", relationships |-> relationships,
                           failAt |-> failAt, attempted |-> r.attempted],
                          [st |-> r.st, err |-> r.err])

RemoveNext ==
    \/ RemoveNode
    \/ RemoveNodes
    \/ RemoveRelationship
    \/ RemoveRelationships

RemoveSpec == RemoveInit /\ [][RemoveNext]_vars

(***************************************************************************)
(* C15: RemoveRelationships                                                *)
(***************************************************************************)
IdentifiedIn(st, id) == MatchRels(st, id.SourceID, id.Type, id.TargetID)

\* C15: RemoveRelationships takes the identifiers in input order; at the first
\* RemoveRelationship that fails it returns that error and attempts no later identifier,
\* and every relationship removed earlier in the call stays removed; when none fails,
\* every listed relationship is absent afterwards.
C15_RemoveRelationshipsBestEffort ==
    stLast.op = "RemoveRelationships" =>
        LET ids == stLast.relationships
            done == stLast.attempted
        IN  /\ Len(done) <= Len(ids)
            /\ done = SubSeq(ids, 1, Len(done))
            /\ stLast.err # "" =>
                  /\ Len(done) = stLast.failAt
                  /\ \A i \in 1 .. (Len(done) - 1) : IdentifiedIn(store, ids[i]) = {}
                  /\ store.rels
                       = stLast.pre.rels
                         \ UNION {IdentifiedIn(stLast.pre, ids[i]) : i \in 1 .. (Len(done) - 1)}
            /\ stLast.err = "" =>
                  /\ done = ids
                  /\ \A i \in 1 .. Len(ids) : IdentifiedIn(store, ids[i]) = {}
            /\ store.nodes = stLast.pre.nodes

\* a call that removed a relationship and then failed at its second identifier, which
\* names a relationship that is still there
C15_Witness ==
    /\ stLast.op = "RemoveRelationships"
    /\ stLast.err # ""
    /\ Len(stLast.relationships) = 2
    /\ Len(stLast.attempted) = 2
    /\ IdentifiedIn(stLast.pre, stLast.relationships[1]) # {}
    /\ IdentifiedIn(store, stLast.relationships[1]) = {}
    /\ IdentifiedIn(store, stLast.relationships[2]) # {}

(***************************************************************************)
(* C16, C17: RemoveNode, RemoveNodes and CascadeDelete                     *)
(***************************************************************************)
\* the nodes of st that have one of the IDs
Targeted(st, nodeIDs) ==
    {n \in st.nodes : \E i \in 1 .. Len(nodeIDs) : HasId(n, nodeIDs[i])}

Incident(st, eids) == {r \in st.rels : r.src \in eids \/ r.tgt \in eids}

RemovedNode == stLast.op = "RemoveNode" /\ stLast.err = ""

MaxSourceDocs == 2

MaxSourceCalls == 2

Source(text, metadata) == [PageContent |-> text, Metadata |-> metadata]

\* a declared ID; no metadata; other metadata; an empty "id"; an "id" that is a number
Sources ==
    {Source("text A", IdProps("doc-1")),
     Source("text A", EmptyProps),
     Source("text B", PropsA1),
     Source("text B", IdProps("")),
     Source("text C", IdProps("int:7"))}

SourceDoc(nodes, relationships, source) ==
    [Nodes |-> nodes, Relationships |-> relationships, Source |-> source]

SourceDocs ==
    {SourceDoc(<<NodeOf("1", "Person", PropsA1)>>, <<>>, s) : s \in Sources}
    \cup {SourceDoc(<<NodeOf("2", "Company", EmptyProps)>>,
                    <<ImportRel("Person", "Company", "KNOWS", PropsA2)>>,
                    Source("text A", IdProps("doc-1"))),
          SourceDoc(<<>>, <<ImportRel("Person", "Company", "KNOWS", PropsA2)>>,
                    Source("text B", EmptyProps))}

SourceDocLists == SeqsUpTo(SourceDocs, MaxSourceDocs) \ {<<>>}

\* AddGraphDocument(ctx, docs, WithIncludeSource(true), WithBatchSize(batchSize))
AddGraphDocument_IncludeSource ==
    /\ stOps < MaxSourceCalls
    /\ \E docs \in SourceDocLists, batchSize \in {0, 1}, failAt \in {0, 1} :
          LET res == Neo4j_AddGraphDocument(store, baseEntityLabel, docs, MergeModeUpsert, TRUE,
                                            batchSize, failAt)
          IN  /\ store' = res.st
              /\ stLast' = [op |-> "AddGraphDocument", docs |-> docs, mode |-> MergeModeUpsert,
                            includeSource |-> TRUE, batchSize |-> batchSize, failAt |-> failAt,
                            err |-> res.err, log |-> res.log, pre |-> store,
                            again |-> /\ stLast.op = "AddGraphDocument"
                                      /\ stLast.err = ""
                                      /\ stLast.docs = docs]
              /\ stOps' = stOps + 1
              /\ UNCHANGED <<baseEntityLabel, docVars, schemaVars, txVars, callVars>>

SourceNext == AddGraphDocument_IncludeSource

SourceSpec == Init /\ [][SourceNext]_vars

(***************************************************************************)
(* C18: importing the same documents again                                 *)
(***************************************************************************)
\* the provenance ID the claim gives a source
ProvenanceID(source) ==
    IF "id" \in DOMAIN source.Metadata /\ source.Metadata["id"] \notin {"", "int:7"}
    THEN source.Metadata["id"]
    ELSE md5Hash(source.PageContent)

\* C18 as stated: the provenance ID of a document is its metadata "id" when that is a
\* non-empty string and otherwise a hash of its text alone, so AddGraphDocument with
\* IncludeSource = true called a second time with the same documents leaves the database
\* as the first call left it: the same nodes, relationships, Document nodes and MENTIONS
\* edges, none of them twice.
C18_AsStated ==
    stLast.op = "AddGraphDocument" /\ stLast.err = "" =>
        /\ \A i \in 1 .. Len(stLast.docs) :
              Len(stLast.docs[i].Nodes) > 0 =>
                 MatchNodes(store, {"Document"}, ProvenanceID(stLast.docs[i].Source)) # {}
        /\ stLast.again => GraphOf(store) = GraphOf(stLast.pre)

(***************************************************************************)
(* C19: one node per ID                                                    *)
(***************************************************************************)
OnePerID(st) ==
    \A n, m \in st.nodes :
        "id" \in DOMAIN n.props /\ "id" \in DOMAIN m.props /\ n.props["id"] = m.props["id"]
        => n.eid = m.eid

\* C19 as stated: two nodes of the store are the same entity iff their IDs match: an
\* AddNodes call in the default Upsert mode on a database with at most one node per ID
\* leaves at most one node per ID, also when it writes an ID with another Type than the
\* node of that ID has (it updates that node).
C19_AsStated ==
    /\ stLast.op = "AddNodes"
    /\ stLast.mode = MergeModeUpsert
    /\ stLast.err = ""
    /\ OnePerID(stLast.pre)
    => OnePerID(store)

(***************************************************************************)
(* C20: no retry                                                           *)
(***************************************************************************)
\* how many times the call sent the import statement of the kind for document d
TxWrites(kind, d) ==
    Cardinality({j \in 1 .. Len(tm.log) : tm.log[j].kind = kind /\ tm.log[j].doc = d})

\* C20 as stated: within one call of AddGraphDocumentWithTransaction the node import and
\* the relationship import of each document are sent to the backend at most once, also
\* when a backend call fails.
C20_AsStated ==
    tm.pc # "idle" =>
        \A d \in 1 .. Len(tm.docs) :
            TxWrites("nodes", d) <= 1 /\ TxWrites("relationships", d) <= 1

(***************************************************************************)
(* C30: GraphDocument.Merge                                                *)
(***************************************************************************)
\* s begins with the entries of p, each at its position
KeepsPrefix(p, s) == Len(s) >= Len(p) /\ \A i \in 1 .. Len(p) : s[i] = p[i]

\* C30: Merge(other) never overwrites: every node and relationship the receiver held before
\* the call is there afterwards at the same position with the same Type and properties,
\* and every entry the call appended is an entry of other whose identity (node ID; source
\* ID, target ID and type) no entry before it in the receiver has.
C30_MergeNeverOverwrites ==
    docLast.op = "Merge" =>
        LET pre == docLast.pre
            other == docLast.args[1]
        IN  /\ KeepsPrefix(pre.Nodes, gd.Nodes)
            /\ KeepsPrefix(pre.Relationships, gd.Relationships)
            /\ \A i \in (Len(pre.Nodes) + 1) .. Len(gd.Nodes) :
                  /\ \E k \in 1 .. Len(other.Nodes) : other.Nodes[k] = gd.Nodes[i]
                  /\ \A j \in 1 .. (i - 1) : gd.Nodes[j].ID # gd.Nodes[i].ID
            /\ \A i \in (Len(pre.Relationships) + 1) .. Len(gd.Relationships) :
                  /\ \E k \in 1 .. Len(other.Relationships) :
                        other.Relationships[k] = gd.Relationships[i]
                  /\ \A j \in 1 .. (i - 1) :
                        GetIdentifier(gd.Relationships[j]) # GetIdentifier(gd.Relationships[i])
            /\ \A k \in 1 .. Len(other.Nodes) : NodeExists(gd, other.Nodes[k].ID)

\* the receiver held node 2 with other properties than the incoming node 2, and the call
\* appended a relationship
C30_Witness ==
    /\ docLast.op = "Merge"
    /\ \E i \in 1 .. Len(docLast.pre.Nodes), k \in 1 .. Len(docLast.args[1].Nodes) :
          /\ docLast.pre.Nodes[i].ID = docLast.args[1].Nodes[k].ID
          /\ docLast.pre.Nodes[i] # docLast.args[1].Nodes[k]
          /\ docLast.pre.Nodes[i].Properties # EmptyProps
    /\ Len(gd.Relationships) > Len(docLast.pre.Relationships)
    /\ Len(docLast.pre.Relationships) > 0

(***************************************************************************)
(* C22: the missing metadata procedure                                     *)
(***************************************************************************)
\* C22 as stated: whenever the backend reports that the metadata-introspection procedure
\* is not found for any of the three metadata queries of RefreshSchema, the call returns
\* ErrAPOCNotAvailable, and an error that does not name a missing procedure is never
\* reported as that kind.
C22_AsStated ==
    \A r \in Refreshers : refresh[r].pc = "done" =>
        /\ refresh[r].cause = "apoc" => refresh[r].err = "ErrAPOCNotAvailable"
        /\ refresh[r].err = "ErrAPOCNotAvailable" => refresh[r].cause = "apoc"

(***************************************************************************)
(* C23: the constraint and index queries                                   *)
(***************************************************************************)
\* C23: constraint and index retrieval is best effort: a RefreshSchema call whose
\* constraint query or index query failed after its three schema queries succeeded returned
\* no error, replaced the cache with the map it built from the records of the schema
\* queries (each as the database reported it at its moment) and a rendering of it, and
\* left an empty list in metadata for each item it could not retrieve.
C23_MetadataBestEffort ==
    \A r \in Refreshers :
        refresh[r].pc = "done" /\ refresh[r].unavailable # {} /\ ~refresh[r].others =>
            /\ refresh[r].err = ""
            /\ structuredSchema = refresh[r].built
            /\ schemaCache \in Renderings(structuredSchema)
            /\ \E d \in DbSchemas :
                  structuredSchema.node_props = RecordsToMap(d.nodes, "labels")
            /\ \E d \in DbSchemas :
                  structuredSchema.rel_props = RecordsToMap(d.relProps, "type")
            /\ \E d \in DbSchemas : structuredSchema.relationships = d.rels
            /\ \A k \in refresh[r].unavailable :
                  /\ k \in DOMAIN structuredSchema.metadata
                  /\ structuredSchema.metadata[k] = <<>>

\* the constraint query failed and the index query did not, on a database that has a
\* constraint and an index, the cache holding an older schema when the call was made
C23_Witness ==
    \E r \in Refreshers :
        /\ refresh[r].pc = "done"
        /\ ~refresh[r].others
        /\ refresh[r].unavailable = {"constraint"}
        /\ db.constraint # <<>>
        /\ structuredSchema.metadata.index = db.index
        /\ db.index # <<>>
        /\ refresh[r].atCall.structuredSchema # NoSchema
        /\ refresh[r].atCall.structuredSchema.node_props # structuredSchema.node_props

(***************************************************************************)
(* C24: the rendering                                                      *)
(***************************************************************************)
\* C24 as stated: rendering is deterministic: a RefreshSchema call that leaves the
\* structured schema it found (the backend unchanged) leaves the cached string it found.
C24_AsStated ==
    [][(structuredSchema # NoSchema /\ structuredSchema' = structuredSchema)
          => schemaCache' = schemaCache]_vars

SectionHeaders == <<"Node properties:", "Relationship properties:", "The relationships:">>

Positions(parts, line) == {i \in 1 .. Len(parts) : parts[i] = line}

\* each header once, in the order of SectionHeaders, the first of them on the first line
HeadersOnceInOrder(parts) ==
    /\ \A h \in 1 .. 3 : Cardinality(Positions(parts, SectionHeaders[h])) = 1
    /\ Positions(parts, SectionHeaders[1]) = {1}
    /\ \A i \in Positions(parts, SectionHeaders[2]), j \in Positions(parts, SectionHeaders[3]) :
          i < j

\* the lines of section h
SectionOf(parts, h) ==
    LET from == CHOOSE i \in Positions(parts, SectionHeaders[h]) : TRUE
        to == IF h = 3 THEN Len(parts) + 1
              ELSE CHOOSE i \in Positions(parts, SectionHeaders[h + 1]) : TRUE
    IN  SubSeq(parts, from + 1, to - 1)

SameLines(a, b) ==
    /\ Len(a) = Len(b)
    /\ {a[i] : i \in 1 .. Len(a)} = {b[i] : i \in 1 .. Len(b)}

\* C24: the cached string is what formatSchema returns for the cached map under some
\* order of its two map ranges; under every order the three section headers occur once
\* each, in the order "Node properties:", "Relationship properties:", "The
\* relationships:", and each section has the same lines, the relationship lines in the
\* same order.  The order of the blocks of two labels is not fixed.
C24_SectionsFixedLinesInAnyOrder ==
    schemaMux = "none" /\ structuredSchema # NoSchema =>
        LET labelOrders == KeyOrders(structuredSchema.node_props)
            relTypeOrders == KeyOrders(structuredSchema.rel_props)
        IN  /\ \E lo \in labelOrders, ro \in relTypeOrders :
                  schemaCache = formatSchema(structuredSchema, lo, ro)
            /\ \A lo \in labelOrders, ro \in relTypeOrders :
                  HeadersOnceInOrder(formatSchema_parts(structuredSchema, lo, ro))
            /\ \A lo1 \in labelOrders, lo2 \in labelOrders,
                  ro1 \in relTypeOrders, ro2 \in relTypeOrders :
                  LET a == formatSchema_parts(structuredSchema, lo1, ro1)
                      b == formatSchema_parts(structuredSchema, lo2, ro2)
                  IN  /\ SameLines(SectionOf(a, 1), SectionOf(b, 1))
                      /\ SameLines(SectionOf(a, 2), SectionOf(b, 2))
                      /\ SectionOf(a, 3) = SectionOf(b, 3)

\* two RefreshSchema calls returned nil, the second on the map the first had cached, and
\* the map has two labels that formatSchema renders
C24_Witness ==
    /\ schemaMux = "none"
    /\ refresh["r1"].pc = "done" /\ refresh["r1"].err = ""
    /\ refresh["r2"].pc = "done" /\ refresh["r2"].err = "" /\ ~refresh["r2"].others
    /\ refresh["r2"].atCall.structuredSchema = structuredSchema
    /\ Cardinality(DOMAIN structuredSchema.node_props) >= 2
    /\ Cardinality(Renderings(structuredSchema)) >= 2

(***************************************************************************)
(* C25: the enhanced schema                                                *)
(***************************************************************************)
Min(S) == CHOOSE x \in S : \A y \in S : x <= y

Max(S) == CHOOSE x \in S : \A y \in S : x >= y

\* the entry of a property in the structured schema
SchemaEntry(schema, label, property) ==
    LET propsList == schema.node_props[label]
    IN  propsList[CHOOSE i \in 1 .. Len(propsList) : propsList[i].property = property]

\* C25 as stated: with enhanced schema enabled, after RefreshSchema the structured schema
\* entry of a numeric property of a label with fewer nodes than ExhaustiveSearchLimit
\* carries the exact statistics of the stored values: min, max and distinct_count (1, 9
\* and 3 for the stored values 1, 5 and 9).
C25_AsStated ==
    \A r \in Refreshers :
        enhancedSchema /\ refresh[r].pc = "done" /\ refresh[r].err = "" /\ ~refresh[r].others =>
            \A s \in db.stored :
                LET entry == SchemaEntry(structuredSchema, s.label, s.property)
                IN  /\ {"min", "max", "distinct_count"} \subseteq DOMAIN entry
                    /\ entry.min = Min(s.values)
                    /\ entry.max = Max(s.values)
                    /\ entry.distinct_count = Cardinality(s.values)

(***************************************************************************)
(* valueSanitize.  A value of type interface{} is a record: nil, a scalar, *)
(* a []interface{} or a map[string]interface{}; isNil tells the nil slice  *)
(* and the nil map from the empty ones.                                    *)
(***************************************************************************)
Nil == [kind |-> "nil"]

Scalar(v) == [kind |-> "scalar", v |-> v]

GoList(items) == [kind |-> "list", isNil |-> FALSE, items |-> items]

NilList == [kind |-> "list", isNil |-> TRUE, items |-> <<>>]

GoMap(m) == [kind |-> "map", isNil |-> FALSE, m |-> m]

NilMap == [kind |-> "map", isNil |-> TRUE, m |-> [k \in {} |-> Nil]]

\* var newList []interface{} and the appends: nil as long as nothing was appended
Appended(items) == [kind |-> "list", isNil |-> items = <<>>, items |-> items]

RECURSIVE valueSanitize_CheckInput(_)
\* valueSanitize done otherwise: it tests the value, not its sanitized form, against nil
valueSanitize_CheckInput(d) ==
    CASE d.kind = "map" ->
            GoMap([key \in {k \in DOMAIN d.m : d.m[k] # Nil} |->
                      valueSanitize_CheckInput(d.m[key])])
      [] d.kind = "list" ->
            IF Len(d.items) >= LIST_LIMIT
            THEN Nil
            ELSE LET kept == SelectSeq(d.items, LAMBDA item : item # Nil)
                 IN  Appended([i \in 1 .. Len(kept) |-> valueSanitize_CheckInput(kept[i])])
      [] OTHER -> d

RECURSIVE valueSanitize_Above(_)
\* valueSanitize done otherwise: it skips the lists longer than LIST_LIMIT only
valueSanitize_Above(d) ==
    CASE d.kind = "map" ->
            GoMap([key \in {k \in DOMAIN d.m : valueSanitize_Above(d.m[k]) # Nil} |->
                      valueSanitize_Above(d.m[key])])
      [] d.kind = "list" ->
            IF Len(d.items) > LIST_LIMIT
            THEN Nil
            ELSE LET sanitized == [i \in 1 .. Len(d.items) |-> valueSanitize_Above(d.items[i])]
                 IN  Appended(SelectSeq(sanitized, LAMBDA item : item # Nil))
      [] OTHER -> d

RECURSIVE valueSanitize(_)
\* the type switch: a map keeps the keys whose sanitized value is not nil; a list of
\* LIST_LIMIT elements or more is nil, a shorter one keeps the sanitized elements that
\* are not nil; any other value is returned as it is
valueSanitize(d) ==
    CASE d.kind = "map" ->
            GoMap([key \in {k \in DOMAIN d.m : valueSanitize(d.m[k]) # Nil} |->
                      valueSanitize(d.m[key])])
      [] d.kind = "list" ->
            IF Len(d.items) >= LIST_LIMIT
            THEN Nil
            ELSE LET sanitized == [i \in 1 .. Len(d.items) |-> valueSanitize(d.items[i])]
                 IN  Appended(SelectSeq(sanitized, LAMBDA item : item # Nil))
      [] OTHER -> d

(***************************************************************************)
(* SanitizeSpec: valueSanitize applied to a nested value, and again to its *)
(* result                                                                  *)
(***************************************************************************)
MaxElems == 2

Keys == {"a", "b"}

\* make([]interface{}, n) filled with one element
Repeat(n, item) == GoList([i \in 1 .. n |-> item])

Embeddings ==
    {Repeat(n, item) : n \in {LIST_LIMIT - 1, LIST_LIMIT, LIST_LIMIT + 1},
                       item \in {Nil, Scalar("1")}}

Scalars == {Nil, Scalar("s")}

ListsOf(S) == {GoList(items) : items \in SeqsUpTo(S, MaxElems)} \cup {NilList}

MapsOf(S) == {GoMap(m) : m \in UNION {[ks -> S] : ks \in SUBSET Keys}} \cup {NilMap}

Flat == Scalars \cup ListsOf(Scalars) \cup Embeddings \cup MapsOf(Scalars)

\* the values that are nested further
Picks ==
    {Nil, Scalar("s"), GoList(<<Nil>>), GoMap([k \in {"a"} |-> Nil]),
     Repeat(LIST_LIMIT - 1, Nil), Repeat(LIST_LIMIT - 1, Scalar("1")),
     Repeat(LIST_LIMIT, Scalar("1"))}

Nested == ListsOf(Picks) \cup MapsOf(Picks)

\* the nested values once more inside a map and inside a sequence
Wrapped == {GoMap([k \in {"a"} |-> v]) : v \in Nested} \cup {GoList(<<v>>) : v \in Nested}

SanitizeInputs == Flat \cup Nested \cup Wrapped

SanitizeInit ==
    /\ san \in {[pc |-> "input", x |-> x] : x \in SanitizeInputs}
    /\ qc = NoQuery
    /\ js = NoJSON
    /\ MoreIdle
    /\ DocIdle
    /\ StoreIdle
    /\ SchemaIdle
    /\ TxIdle

valueSanitize_Apply ==
    /\ san.pc = "input"
    /\ san' = [pc |-> "once", x |-> san.x, once |-> valueSanitize(san.x)]
    /\ UNCHANGED <<qc, js, moreVars, docVars, storeVars, schemaVars, txVars>>

valueSanitize_Again ==
    /\ san.pc = "once"
    /\ san' = [pc |-> "twice", x |-> san.x, once |-> san.once,
               twice |-> valueSanitize(san.once)]
    /\ UNCHANGED <<qc, js, moreVars, docVars, storeVars, schemaVars, txVars>>

SanitizeNext ==
    \/ valueSanitize_Apply
    \/ valueSanitize_Again

SanitizeSpec == SanitizeInit /\ [][SanitizeNext]_vars

(***************************************************************************)
(* C26, C27, C28: what valueSanitize keeps                                 *)
(***************************************************************************)
Children(v) ==
    CASE v.kind = "map" -> {v.m[k] : k \in DOMAIN v.m}
      [] v.kind = "list" -> {v.items[i] : i \in 1 .. Len(v.items)}
      [] OTHER -> {}

RECURSIVE Subvalues(_)
\* the value and every value nested in it
Subvalues(v) == {v} \cup UNION {Subvalues(c) : c \in Children(v)}

Oversized(v) == v.kind = "list" /\ Len(v.items) >= LIST_LIMIT

RECURSIVE Outside(_)
\* the value and the values nested in it that are not inside an oversized sequence
Outside(v) == {v} \cup (IF Oversized(v) THEN {} ELSE UNION {Outside(c) : c \in Children(v)})

\* C26: valueSanitize is idempotent: for every nested value x built from maps, sequences
\* and scalars, null and sequences whose elements are all dropped included,
\* valueSanitize(valueSanitize(x)) equals valueSanitize(x).
C26_SanitizeIdempotent == san.pc = "twice" => san.twice = san.once

\* the first application changed the value, which held a sequence all of whose elements
\* were dropped, and nothing was left for the second
C26_Witness ==
    /\ san.pc = "twice"
    /\ san.once # san.x
    /\ san.once # Nil
    /\ \E s \in Outside(san.x) :
          s.kind = "list" /\ Len(s.items) > 0 /\ ~Oversized(s) /\ valueSanitize(s).items = <<>>

\* the elements valueSanitize takes out of a sequence
Dropped(item) == item = Nil \/ Oversized(item)

C28_AsStated ==
    san.pc \in {"once", "twice"} /\ san.x.kind = "map" =>
        \A k \in DOMAIN san.x.m :
            LET value == san.x.m[k]
            IN  /\ k \notin DOMAIN san.once.m => Oversized(value)
                /\ value.kind \in {"nil", "scalar"} =>
                      k \in DOMAIN san.once.m /\ san.once.m[k] = value
                /\ value.kind = "list" /\ ~Oversized(value) =>
                      /\ k \in DOMAIN san.once.m
                      /\ SelectSeq(san.once.m[k].items,
                                   LAMBDA item : item.kind \in {"nil", "scalar"})
                           = SelectSeq(value.items,
                                       LAMBDA item : item.kind \in {"nil", "scalar"})

(***************************************************************************)
(* Neo4j.Query.  An error is [is, msg]: the errors that errors.Is finds in *)
(* its chain, and its text.                                                *)
(***************************************************************************)
ErrDriverNotInitialized == [is |-> {"ErrDriverNotInitialized"}, msg |-> "neo4j driver not initialized"]

\* the error of session.Run or of result.Err(): the statement failed in the database, or
\* the deadline of timeoutCtx passed while the call was waiting
DriverError(outcome) ==
    IF outcome = "timeout"
    THEN [is |-> {"context.DeadlineExceeded"}, msg |-> "context deadline exceeded"]
    ELSE [is |-> {"neo4j.Neo4jError"}, msg |-> "Neo.ClientError.Statement.SyntaxError"]

\* fmt.Errorf("%w: %v", ErrQueryExecution, err): err is formatted into the text and is
\* not in the chain
WrapQueryExecution(err) ==
    [is |-> {"ErrQueryExecution"}, msg |-> "failed to execute query: " \o err.msg]

\* n.timeout: none, or thirty seconds
Timeouts == {0, 30}

\* the outcomes of session.Run: the deadline can pass only if there is one
session_Run(timeout) == {"ok", "failure"} \cup (IF timeout > 0 THEN {"timeout"} ELSE {})

MaxRecords == 2

\* record.AsMap() of the records a statement may return
QueryRecords ==
    {GoMap([k \in {} |-> Nil]),
     GoMap([k \in {"a"} |-> Scalar("s")]),
     GoMap([k \in {"a"} |-> Nil]),
     GoMap([k \in {"a", "b"} |-> IF k = "a" THEN Repeat(LIST_LIMIT, Scalar("1")) ELSE Scalar("s")]),
     GoMap([k \in {"a"} |-> GoList(<<Nil, Scalar("s")>>)]),
     GoMap([k \in {"a"} |-> GoMap([j \in {"b"} |-> Repeat(LIST_LIMIT, Scalar("1"))])])}

RECURSIVE SanitizeRecords(_)
\* the loop over the records: the sanitized record is appended when it is not nil and is
\* a map
SanitizeRecords(records) ==
    IF records = <<>> THEN <<>>
    ELSE LET sanitized == valueSanitize(Head(records))
         IN  (IF sanitized # Nil /\ sanitized.kind = "map" THEN <<sanitized>> ELSE <<>>)
             \o SanitizeRecords(Tail(records))

\* the map Query returns
QueryResult(records) ==
    [records |-> records, summary |-> [query |-> "query", parameters |-> "params"]]

(***************************************************************************)
(* QuerySpec: one Query call on a store built with WithTimeout and         *)
(* WithSanitize                                                            *)
(***************************************************************************)
QueryInit ==
    /\ qc \in {[pc |-> "new", timeout |-> t, sanitize |-> s] :
                  t \in Timeouts, s \in BOOLEAN}
    /\ san = NoValue
    /\ js = NoJSON
    /\ MoreIdle
    /\ DocIdle
    /\ StoreIdle
    /\ TxIdle
    /\ driver \in BOOLEAN
    /\ enhancedSchema = FALSE
    /\ schemaMux = "none"
    /\ schemaCache = ""
    /\ structuredSchema = NoSchema
    /\ db = DbPersons
    /\ refresh = [r \in Refreshers |-> IdleRefresher]
    /\ reader = IdleReader

QueryIdle == UNCHANGED <<san, js, moreVars, docVars, storeVars, schemaVars, txVars>>

QueryReturns(result, err, outcome) ==
    qc' = [pc |-> "returned", timeout |-> qc.timeout, sanitize |-> qc.sanitize,
           result |-> result, err |-> err, outcome |-> outcome]

\* if n.driver == nil { return nil, ErrDriverNotInitialized }; NewSession
Query_Call ==
    /\ qc.pc = "new"
    /\ IF driver
       THEN qc' = [qc EXCEPT !.pc = "Run"]
       ELSE QueryReturns(<<>>, ErrDriverNotInitialized, "none")
    /\ QueryIdle

\* session.Run under timeoutCtx when n.timeout > 0, under ctx otherwise
Query_Run ==
    /\ qc.pc = "Run"
    /\ \E outcome \in session_Run(qc.timeout) :
          IF outcome = "ok"
          THEN \E stream \in SeqsUpTo(QueryRecords, MaxRecords) :
                  qc' = [pc |-> "Next", timeout |-> qc.timeout, sanitize |-> qc.sanitize,
                         stream |-> stream]
          ELSE QueryReturns(<<>>, WrapQueryExecution(DriverError(outcome)), outcome)
    /\ QueryIdle

\* the loop over result.Next(ctx), result.Err(), the sanitization and the return
Query_Collect ==
    /\ qc.pc = "Next"
    /\ \E outcome \in {"ok", "failure"} :
          IF outcome = "ok"
          THEN QueryReturns(QueryResult(IF qc.sanitize THEN SanitizeRecords(qc.stream)
                                        ELSE qc.stream),
                            [is |-> {}, msg |-> ""], "ok")
          ELSE QueryReturns(<<>>, WrapQueryExecution(DriverError(outcome)), outcome)
    /\ QueryIdle

QueryNext ==
    \/ Query_Call
    \/ Query_Run
    \/ Query_Collect

QuerySpec == QueryInit /\ [][QueryNext]_vars

(***************************************************************************)
(* C21: the timeout of Query                                               *)
(***************************************************************************)
\* C21 as stated: when the per-query timeout fires during a backend call of Query, the
\* error the caller gets is distinguishable from the error of a query-execution failure of
\* the same call: the errors the caller can test for with errors.Is are not the same for
\* the two (ErrQueryExecution alone, without the timeout as a cause).
C21_AsStated ==
    qc.pc = "returned" /\ qc.outcome = "timeout" =>
        qc.err.is # WrapQueryExecution(DriverError("failure")).is

(***************************************************************************)
(* GraphDocument.ToJSON and FromJSON: encoding/json on the struct tags of  *)
(* Node, Relationship and GraphDocument.  The JSON text is the tree of its *)
(* values; a number is its literal.  A Go number is an int or a float64    *)
(* with its decimal digits.                                                *)
(***************************************************************************)
GoInt(digits) == [kind |-> "int", v |-> digits]

GoFloat64(digits) == [kind |-> "float64", v |-> digits]

JSONNull == [json |-> "null"]

JSONString(text) == [json |-> "string", v |-> text]

JSONNumber(literal) == [json |-> "number", v |-> literal]

JSONArray(items) == [json |-> "array", items |-> items]

JSONObject(members) == [json |-> "object", members |-> members]

RECURSIVE json_Marshal(_)
\* json.Marshal of an interface{} value: nil, the nil slice and the nil map are null
json_Marshal(v) ==
    CASE v.kind = "nil" -> JSONNull
      [] v.kind = "scalar" -> JSONString(v.v)
      [] v.kind \in {"int", "float64"} -> JSONNumber(v.v)
      [] v.kind = "list" ->
            IF v.isNil THEN JSONNull
            ELSE JSONArray([i \in 1 .. Len(v.items) |-> json_Marshal(v.items[i])])
      [] OTHER ->
            IF v.isNil THEN JSONNull
            ELSE JSONObject([k \in DOMAIN v.m |-> json_Marshal(v.m[k])])

\* strconv.ParseFloat(literal, 64) and back: the float64 nearest to the literal; 2^53 + 1
\* is not a float64
Float64(literal) ==
    IF literal = "9007199254740993" THEN "9007199254740992" ELSE literal

RECURSIVE json_Unmarshal(_)
\* json.Unmarshal into an interface{}: nil, string, float64, []interface{},
\* map[string]interface{}
json_Unmarshal(j) ==
    CASE j.json = "null" -> Nil
      [] j.json = "string" -> Scalar(j.v)
      [] j.json = "number" -> GoFloat64(Float64(j.v))
      [] j.json = "array" -> GoList([i \in 1 .. Len(j.items) |-> json_Unmarshal(j.items[i])])
      [] OTHER -> GoMap([k \in DOMAIN j.members |-> json_Unmarshal(j.members[k])])

\* json.Unmarshal into a field of type map[string]interface{}: null leaves the nil map
UnmarshalMap(j) ==
    IF j.json = "null" THEN NilMap
    ELSE GoMap([k \in DOMAIN j.members |-> json_Unmarshal(j.members[k])])

\* Node with the tags id, type, properties
MarshalNode(n) ==
    JSONObject([id |-> JSONString(n.ID), type |-> JSONString(n.Type),
                properties |-> json_Marshal(n.Properties)])

UnmarshalNode(j) ==
    [ID |-> j.members.id.v, Type |-> j.members.type.v,
     Properties |-> UnmarshalMap(j.members.properties)]

\* Relationship with the tags source, target, type, properties
MarshalRelationship(r) ==
    JSONObject([source |-> MarshalNode(r.Source), target |-> MarshalNode(r.Target),
                type |-> JSONString(r.Type), properties |-> json_Marshal(r.Properties)])

UnmarshalRelationship(j) ==
    [Source |-> UnmarshalNode(j.members.source), Target |-> UnmarshalNode(j.members.target),
     Type |-> j.members.type.v, Properties |-> UnmarshalMap(j.members.properties)]

\* schema.Document, which has no tags: PageContent, Metadata, Score
MarshalSource(source) ==
    JSONObject([PageContent |-> JSONString(source.PageContent),
                Metadata |-> json_Marshal(source.Metadata),
                Score |-> JSONNumber(source.Score)])

UnmarshalSource(j) ==
    [PageContent |-> j.members.PageContent.v,
     Metadata |-> UnmarshalMap(j.members.Metadata),
     Score |-> j.members.Score.v]

\* json.Marshal(gd); a nil slice of structs is null
ToJSON(d) ==
    JSONObject(
        [nodes |->
            IF d.Nodes.isNil THEN JSONNull
            ELSE JSONArray([i \in 1 .. Len(d.Nodes.items) |->
                               MarshalNode(d.Nodes.items[i])]),
         relationships |->
            IF d.Relationships.isNil THEN JSONNull
            ELSE JSONArray([i \in 1 .. Len(d.Relationships.items) |->
                               MarshalRelationship(d.Relationships.items[i])]),
         source |-> MarshalSource(d.Source)])

\* json.Unmarshal(data, &gd); null leaves the nil slice of the zero GraphDocument
FromJSON(data) ==
    LET nodes == data.members.nodes
        relationships == data.members.relationships
    IN  [Nodes |->
            IF nodes.json = "null" THEN NilList
            ELSE GoList([i \in 1 .. Len(nodes.items) |-> UnmarshalNode(nodes.items[i])]),
         Relationships |->
            IF relationships.json = "null" THEN NilList
            ELSE GoList([i \in 1 .. Len(relationships.items) |->
                            UnmarshalRelationship(relationships.items[i])]),
         Source |-> UnmarshalSource(data.members.source)]

(***************************************************************************)
(* JsonSpec: a GraphDocument serialized and read back                      *)
(***************************************************************************)
MaxJsonNodes == 2

\* the property maps of the documents: nil, empty, and one key with a value of each kind
JsonProperties ==
    {NilMap, GoMap([k \in {} |-> Nil])}
    \cup {GoMap([k \in {"a"} |-> v]) :
            v \in {Nil, Scalar("s"), GoInt("1"), GoInt("9007199254740993"), GoFloat64("1.5"),
                   GoList(<<GoInt("1"), Scalar("s")>>),
                   GoMap([j \in {"b"} |-> Scalar("s")])}}

JsonNodes == {[ID |-> "1", Type |-> "Person", Properties |-> p] : p \in JsonProperties}

JsonRelationships ==
    {[Source |-> [ID |-> "1", Type |-> "Person", Properties |-> GoMap([k \in {} |-> Nil])],
      Target |-> [ID |-> "2", Type |-> "Person", Properties |-> NilMap],
      Type |-> "KNOWS", Properties |-> p] :
        p \in {NilMap, GoMap([k \in {"a"} |-> GoFloat64("1.5")])}}

JsonSources ==
    {[PageContent |-> "", Metadata |-> NilMap, Score |-> "0"],
     [PageContent |-> "text", Metadata |-> GoMap([k \in {"id"} |-> Scalar("doc-1")]),
      Score |-> "0.5"]}

JsonDocs ==
    {[Nodes |-> ns, Relationships |-> rs, Source |-> source] :
        ns \in {NilList} \cup {GoList(items) : items \in SeqsUpTo(JsonNodes, MaxJsonNodes)},
        rs \in {NilList} \cup {GoList(<<r>>) : r \in JsonRelationships},
        source \in JsonSources}

JsonInit ==
    /\ js \in {[pc |-> "document", d |-> d] : d \in JsonDocs}
    /\ qc = NoQuery
    /\ san = NoValue
    /\ MoreIdle
    /\ DocIdle
    /\ StoreIdle
    /\ SchemaIdle
    /\ TxIdle

DocToJSON ==
    /\ js.pc = "document"
    /\ js' = [pc |-> "json", d |-> js.d, data |-> ToJSON(js.d)]
    /\ UNCHANGED <<qc, san, moreVars, docVars, storeVars, schemaVars, txVars>>

DocFromJSON ==
    /\ js.pc = "json"
    /\ js' = [pc |-> "back", d |-> js.d, data |-> js.data, out |-> FromJSON(js.data)]
    /\ UNCHANGED <<qc, san, moreVars, docVars, storeVars, schemaVars, txVars>>

JsonNext ==
    \/ DocToJSON
    \/ DocFromJSON

JsonSpec == JsonInit /\ [][JsonNext]_vars

(***************************************************************************)
(* C29: the round trip through JSON                                        *)
(***************************************************************************)
RECURSIVE SameValue(_, _)
\* equal values: a number by its value, whatever its Go type; the nil and the empty
\* sequence (map) alike
SameValue(a, b) ==
    CASE a.kind \in {"int", "float64"} -> b.kind \in {"int", "float64"} /\ a.v = b.v
      [] a.kind = "list" ->
            /\ b.kind = "list"
            /\ Len(a.items) = Len(b.items)
            /\ \A i \in 1 .. Len(a.items) : SameValue(a.items[i], b.items[i])
      [] a.kind = "map" ->
            /\ b.kind = "map"
            /\ DOMAIN a.m = DOMAIN b.m
            /\ \A k \in DOMAIN a.m : SameValue(a.m[k], b.m[k])
      [] OTHER -> a = b

SameNode(a, b) ==
    a.ID = b.ID /\ a.Type = b.Type /\ SameValue(a.Properties, b.Properties)

SameRelationship(a, b) ==
    /\ SameNode(a.Source, b.Source)
    /\ SameNode(a.Target, b.Target)
    /\ a.Type = b.Type
    /\ SameValue(a.Properties, b.Properties)

\* C29 as stated: for every GraphDocument d with N nodes and M relationships (property
\* maps nested, empty or nil), FromJSON(ToJSON(d)) yields a document with the same N nodes
\* and M relationships in the same order, with equal ID, Type, endpoints and property
\* maps, and an equal Source.
C29_AsStated ==
    js.pc = "back" =>
        /\ Len(js.out.Nodes.items) = Len(js.d.Nodes.items)
        /\ \A i \in 1 .. Len(js.d.Nodes.items) :
              SameNode(js.d.Nodes.items[i], js.out.Nodes.items[i])
        /\ Len(js.out.Relationships.items) = Len(js.d.Relationships.items)
        /\ \A i \in 1 .. Len(js.d.Relationships.items) :
              SameRelationship(js.d.Relationships.items[i], js.out.Relationships.items[i])
        /\ js.out.Source.PageContent = js.d.Source.PageContent
        /\ js.out.Source.Score = js.d.Source.Score
        /\ SameValue(js.d.Source.Metadata, js.out.Source.Metadata)

(***************************************************************************)
(* C37, C38: uniqueness and the removal counts of the GraphDocument        *)
(***************************************************************************)
UniqueNodes(d) ==
    \A i, j \in 1 .. Len(d.Nodes) : d.Nodes[i].ID = d.Nodes[j].ID => i = j

UniqueRelationships(d) ==
    \A i, j \in 1 .. Len(d.Relationships) :
        GetIdentifier(d.Relationships[i]) = GetIdentifier(d.Relationships[j]) => i = j

\* the methods that C37 is about: all but AddNode and AddRelationship
KeepingOps ==
    {"Merge", "RemoveNode", "RemoveNodes", "RemoveRelationship", "RemoveRelationships",
     "UpdateNode", "UpdateRelationship"}

\* C37: if the nodes of a GraphDocument are unique by ID and its relationships unique by
\* (source ID, target ID, type), they still are after Merge(other), whatever other holds,
\* RemoveNode, RemoveNodes, RemoveRelationship, RemoveRelationships, UpdateNode and
\* UpdateRelationship; by induction, after every sequence of them.
C37_UniquenessKept ==
    (/\ docLast.op \in KeepingOps
     /\ UniqueNodes(docLast.pre)
     /\ UniqueRelationships(docLast.pre))
        => UniqueNodes(gd) /\ UniqueRelationships(gd)

\* a Merge of a document with a repeated ID and a repeated triple added entries to a
\* receiver with unique entries
C37_Witness ==
    /\ docLast.op = "Merge"
    /\ UniqueNodes(docLast.pre) /\ UniqueRelationships(docLast.pre)
    /\ ~UniqueNodes(docLast.args[1]) /\ ~UniqueRelationships(docLast.args[1])
    /\ Len(gd.Nodes) > Len(docLast.pre.Nodes)
    /\ Len(gd.Relationships) > Len(docLast.pre.Relationships)
    /\ Len(docLast.pre.Nodes) > 0

RECURSIVE IsSubsequence(_, _)
\* s is t with some entries left out, the others in their order
IsSubsequence(s, t) ==
    IF s = <<>> THEN TRUE
    ELSE IF t = <<>> THEN FALSE
    ELSE IF Head(s) = Head(t) THEN IsSubsequence(Tail(s), Tail(t))
    ELSE IsSubsequence(s, Tail(t))

\* C38: RemoveNodes(ids) and RemoveRelationships(ids) return the number of entries
\* removed: the node (relationship) count after the call is the count before minus the
\* returned value, for lists with repeated or unknown identifiers and documents with
\* duplicate entries, and the remaining entries keep their relative order.
C38_RemovedCounts ==
    /\ docLast.op = "RemoveNodes" =>
          /\ Len(gd.Nodes) = Len(docLast.pre.Nodes) - docLast.ret
          /\ IsSubsequence(gd.Nodes, docLast.pre.Nodes)
          /\ IsSubsequence(gd.Relationships, docLast.pre.Relationships)
    /\ docLast.op = "RemoveRelationships" =>
          /\ Len(gd.Relationships) = Len(docLast.pre.Relationships) - docLast.ret
          /\ IsSubsequence(gd.Relationships, docLast.pre.Relationships)
          /\ gd.Nodes = docLast.pre.Nodes

\* RemoveNodes with a repeated ID took one of three nodes with that ID and left the others,
\* different ones, in their order
C38_Witness ==
    /\ docLast.op = "RemoveNodes"
    /\ docLast.args[1] = <<"1", "2">>
    /\ ~UniqueNodes(docLast.pre)
    /\ docLast.ret = 1
    /\ Len(gd.Nodes) = 2
    /\ gd.Nodes[1] # gd.Nodes[2]

(***************************************************************************)
(* Clone.  A Go map is a reference: two Node values with the same          *)
(* Properties map share its entries.  Here a Node holds the address of its *)
(* property map on a heap (a sequence of maps; address 0 is the nil map),  *)
(* and a plain copy of the struct copies the address.  Slices are values:  *)
(* Clone and NewGraphDocument build the clone's slices afresh.             *)
(***************************************************************************)
NilAddr == 0

\* make(map[string]interface{}) filled with the entries of m: the heap with the new map
\* at its end
Alloc(heap, m) == Append(heap, m)

\* for k, v := range n.Properties: the entries of the map, none of the nil map
Entries(heap, addr) == IF addr = NilAddr THEN EmptyProps ELSE heap[addr]

\* Node.Clone: a new map with the entries of the node's
Node_Clone(heap, n) ==
    [heap |-> Alloc(heap, Entries(heap, n.Properties)),
     node |-> [ID |-> n.ID, Type |-> n.Type, Properties |-> Len(heap) + 1]]

\* Relationship.Clone: Source.Clone(), Target.Clone() and a new map
Relationship_Clone(heap, r) ==
    LET source == Node_Clone(heap, r.Source)
        target == Node_Clone(source.heap, r.Target)
    IN  [heap |-> Alloc(target.heap, Entries(heap, r.Properties)),
         rel |-> [Source |-> source.node, Target |-> target.node, Type |-> r.Type,
                  Properties |-> Len(target.heap) + 1]]

RECURSIVE Clone_Nodes(_, _, _)
\* the first loop of GraphDocument.Clone: a new Node with a new map for each node
Clone_Nodes(heap, nodes, d) ==
    IF nodes = <<>> THEN [heap |-> heap, gd |-> d]
    ELSE LET node == Head(nodes)
             newNode == [ID |-> node.ID, Type |-> node.Type, Properties |-> Len(heap) + 1]
         IN  Clone_Nodes(Alloc(heap, Entries(heap, node.Properties)), Tail(nodes),
                         GraphDocument_AddNode(d, newNode))

RECURSIVE Clone_Relationships_Deep(_, _, _)
\* Clone_Relationships done otherwise: the endpoints cloned with Node.Clone
Clone_Relationships_Deep(heap, rels, d) ==
    IF rels = <<>> THEN [heap |-> heap, gd |-> d]
    ELSE LET cloned == Relationship_Clone(heap, Head(rels))
         IN  Clone_Relationships_Deep(cloned.heap, Tail(rels),
                                      GraphDocument_AddRelationship(d, cloned.rel))

RECURSIVE Clone_Relationships(_, _, _)
\* the second loop: Source: rel.Source and Target: rel.Target are plain copies of the
\* structs, the relationship's own map is new
Clone_Relationships(heap, rels, d) ==
    IF rels = <<>> THEN [heap |-> heap, gd |-> d]
    ELSE LET rel == Head(rels)
             newRel == [Source |-> rel.Source, Target |-> rel.Target, Type |-> rel.Type,
                        Properties |-> Len(heap) + 1]
         IN  Clone_Relationships(Alloc(heap, Entries(heap, rel.Properties)), Tail(rels),
                                 GraphDocument_AddRelationship(d, newRel))

GraphDocument_Clone(heap, d) ==
    LET nodes == Clone_Nodes(heap, d.Nodes, NewGraphDocument)
    IN  Clone_Relationships(nodes.heap, d.Relationships, nodes.gd)

\* a caller's copy made of the elements' clones: AddNode(node.Clone()) for each node and
\* AddRelationship(rel.Clone()) for each relationship
RECURSIVE Clone_Each(_, _, _)
Clone_Each(heap, d, c) ==
    IF d.Nodes # <<>>
    THEN LET cloned == Node_Clone(heap, Head(d.Nodes))
         IN  Clone_Each(cloned.heap, [d EXCEPT !.Nodes = Tail(@)],
                        GraphDocument_AddNode(c, cloned.node))
    ELSE IF d.Relationships # <<>>
    THEN LET cloned == Relationship_Clone(heap, Head(d.Relationships))
         IN  Clone_Each(cloned.heap, [d EXCEPT !.Relationships = Tail(@)],
                        GraphDocument_AddRelationship(c, cloned.rel))
    ELSE [heap |-> heap, gd |-> c]

(***************************************************************************)
(* The mutations of a document on the heap.  A target is a map holder of   *)
(* the document: a node, a relationship, or a relationship's Source or     *)
(* Target node.                                                            *)
(***************************************************************************)
Targets(d) ==
    {<<"node", i>> : i \in 1 .. Len(d.Nodes)}
    \cup {<<part, i>> : part \in {"rel", "source", "target"}, i \in 1 .. Len(d.Relationships)}

AddrOf(d, t) ==
    CASE t[1] = "node" -> d.Nodes[t[2]].Properties
      [] t[1] = "rel" -> d.Relationships[t[2]].Properties
      [] t[1] = "source" -> d.Relationships[t[2]].Source.Properties
      [] OTHER -> d.Relationships[t[2]].Target.Properties

WithAddr(d, t, addr) ==
    CASE t[1] = "node" -> [d EXCEPT !.Nodes[t[2]].Properties = addr]
      [] t[1] = "rel" -> [d EXCEPT !.Relationships[t[2]].Properties = addr]
      [] t[1] = "source" -> [d EXCEPT !.Relationships[t[2]].Source.Properties = addr]
      [] OTHER -> [d EXCEPT !.Relationships[t[2]].Target.Properties = addr]

\* if Properties == nil { Properties = make(...) }; for key, value := range properties
\* { Properties[key] = value }: SetProperty with one entry, UpdateNode and
\* UpdateRelationship with a map
SetProperties(heap, d, t, properties) ==
    IF AddrOf(d, t) = NilAddr
    THEN [heap |-> Alloc(heap, properties), gd |-> WithAddr(d, t, Len(heap) + 1)]
    ELSE [heap |-> [heap EXCEPT ![AddrOf(d, t)] = SetAll(@, properties)], gd |-> d]

\* delete(Properties, key), nothing on the nil map or without the key
RemoveProperty(heap, d, t, key) ==
    IF AddrOf(d, t) # NilAddr /\ key \in DOMAIN heap[AddrOf(d, t)]
    THEN [heap |-> [heap EXCEPT ![AddrOf(d, t)] =
                       [k \in DOMAIN @ \ {key} |-> @[k]]],
          gd |-> d]
    ELSE [heap |-> heap, gd |-> d]

\* what is reachable from the document: its sequences, with every map by its entries
Contents(heap, addr) == IF addr = NilAddr THEN "nil" ELSE heap[addr]

NodeContents(heap, n) == [n EXCEPT !.Properties = Contents(heap, @)]

View(heap, d) ==
    [Nodes |-> [i \in 1 .. Len(d.Nodes) |-> NodeContents(heap, d.Nodes[i])],
     Relationships |->
        [i \in 1 .. Len(d.Relationships) |->
            [Source |-> NodeContents(heap, d.Relationships[i].Source),
             Target |-> NodeContents(heap, d.Relationships[i].Target),
             Type |-> d.Relationships[i].Type,
             Properties |-> Contents(heap, d.Relationships[i].Properties)]]]

(***************************************************************************)
(* CloneSpec: a document, its clone, and mutations of either               *)
(***************************************************************************)
MaxMutations == 2

\* the documents cloned: a node made by NewNode and added, with or without properties;
\* a relationship made by NewRelationship from that node (its Source a plain copy, the
\* map shared with the node), from other nodes, or of nodes without a map
CloneHeap == <<EmptyProps, PropsA1, EmptyProps, EmptyProps>>

CloneDocs ==
    {[Nodes |-> ns, Relationships |-> rs] :
        ns \in {<<[ID |-> "1", Type |-> "Person", Properties |-> a]>> : a \in {1, 2}},
        rs \in {<<>>}
               \cup {<<[Source |-> [ID |-> "1", Type |-> "Person", Properties |-> s],
                        Target |-> [ID |-> "2", Type |-> "Person", Properties |-> t],
                        Type |-> "KNOWS", Properties |-> 4]>> :
                        s \in {NilAddr, 1, 3}, t \in {NilAddr, 3}}}

Sides == {"original", "clone"}

Other(side) == IF side = "original" THEN "clone" ELSE "original"

CloneInit ==
    /\ cl \in {[pc |-> "built", heap |-> CloneHeap, original |-> d] : d \in CloneDocs}
    /\ rd = NoStoreRead
    /\ fp = NoProperty
    /\ sm = NoSchemaMaps
    /\ qc = NoQuery
    /\ san = NoValue
    /\ js = NoJSON
    /\ DocIdle
    /\ StoreIdle
    /\ SchemaIdle
    /\ TxIdle

CloneIdle == UNCHANGED <<rd, fp, sm, qc, san, js, docVars, storeVars, schemaVars, txVars>>

Cloned(how, res) ==
    /\ cl.pc = "built"
    /\ cl' = [pc |-> "cloned", how |-> how, heap |-> res.heap, original |-> cl.original,
              clone |-> res.gd, n |-> 0, last |-> NoCall]
    /\ CloneIdle

\* c := gd.Clone()
Clone_Document == Cloned("GraphDocument.Clone", GraphDocument_Clone(cl.heap, cl.original))

\* the clone assembled from Node.Clone and Relationship.Clone of the elements
Clone_Elements ==
    Cloned("Node.Clone, Relationship.Clone", Clone_Each(cl.heap, cl.original, NewGraphDocument))

\* the mutation of one side: the heap and that side's document after it, the view of the
\* other side before it kept
Mutated(side, op, res) ==
    /\ cl.n < MaxMutations
    /\ cl' = [cl EXCEPT !.pc = "mutated",
                        !.heap = res.heap,
                        ![side] = res.gd,
                        !.n = @ + 1,
                        !.last = [side |-> side, op |-> op,
                                  other |-> View(cl.heap, cl[Other(side)])]]
    /\ CloneIdle

Mutate_SetProperty ==
    /\ cl.pc \in {"cloned", "mutated"}
    /\ \E side \in Sides :
           \E t \in Targets(cl[side]) :
               Mutated(side, "SetProperty", SetProperties(cl.heap, cl[side], t, PropsB2))

Mutate_RemoveProperty ==
    /\ cl.pc \in {"cloned", "mutated"}
    /\ \E side \in Sides :
           \E t \in Targets(cl[side]) :
               Mutated(side, "RemoveProperty", RemoveProperty(cl.heap, cl[side], t, "a"))

Mutate_UpdateNode ==
    /\ cl.pc \in {"cloned", "mutated"}
    /\ \E side \in Sides, nodeID \in NodeIDs :
           /\ FindNode(cl[side], nodeID) # 0
           /\ Mutated(side, "UpdateNode",
                      SetProperties(cl.heap, cl[side], <<"node", FindNode(cl[side], nodeID)>>,
                                    PropsA2))

Mutate_UpdateRelationship ==
    /\ cl.pc \in {"cloned", "mutated"}
    /\ \E side \in Sides :
           LET i == FindRelationship(cl[side], "1", "2", "KNOWS")
           IN  /\ i # 0
               /\ Mutated(side, "UpdateRelationship",
                          SetProperties(cl.heap, cl[side], <<"rel", i>>, PropsA2))

\* AddNode(NewNode("2", "Person"))
Mutate_AddNode ==
    /\ cl.pc \in {"cloned", "mutated"}
    /\ \E side \in Sides :
           /\ Len(cl[side].Nodes) < MaxDocNodes
           /\ Mutated(side, "AddNode",
                      [heap |-> Alloc(cl.heap, EmptyProps),
                       gd |-> GraphDocument_AddNode(cl[side],
                                  [ID |-> "2", Type |-> "Person",
                                   Properties |-> Len(cl.heap) + 1])])

Mutate_RemoveNode ==
    /\ cl.pc \in {"cloned", "mutated"}
    /\ \E side \in Sides, nodeID \in NodeIDs :
           Mutated(side, "RemoveNode",
                   [heap |-> cl.heap, gd |-> GraphDocument_RemoveNode(cl[side], nodeID).gd])

CloneNext ==
    \/ Clone_Document
    \/ Clone_Elements
    \/ Mutate_SetProperty
    \/ Mutate_RemoveProperty
    \/ Mutate_UpdateNode
    \/ Mutate_UpdateRelationship
    \/ Mutate_AddNode
    \/ Mutate_RemoveNode

CloneSpec == CloneInit /\ [][CloneNext]_vars

\* C31 as stated: after c = Clone() of a Node, Relationship or GraphDocument, no mutation of
\* c (SetProperty / RemoveProperty on its nodes, its relationships and the Source / Target
\* nodes of its relationships; UpdateNode, UpdateRelationship, AddNode, RemoveNode) changes
\* a property map or sequence reachable from the original, and vice versa.
C31_AsStated ==
    cl.pc = "mutated" => View(cl.heap, cl[Other(cl.last.side)]) = cl.last.other

\* the same of the clones made with Node.Clone and Relationship.Clone alone
ElementClonesIndependent ==
    (cl.pc = "mutated" /\ cl.how # "GraphDocument.Clone")
        => View(cl.heap, cl[Other(cl.last.side)]) = cl.last.other

(***************************************************************************)
(* The read operations of the Neo4j store                                  *)
(***************************************************************************)
\* convertNeo4jNodeToGraphNode: Type is the first label that is not the base entity
\* label, in the order the database lists the labels, which it does not promise: any of
\* them; ID is the "id" property, "" without one
convertNeo4jNodeToGraphNode(n) ==
    {[ID |-> IF "id" \in DOMAIN n.props THEN n.props["id"] ELSE "",
      Type |-> nodeType,
      Properties |-> n.props] :
        nodeType \in IF n.labels \ {BASE_ENTITY_LABEL} = {} THEN {""}
                     ELSE n.labels \ {BASE_ENTITY_LABEL}}

\* MATCH (n {id: $id}) RETURN count(n) > 0 as exists
Neo4j_NodeExists(st, nodeID) == MatchNodes(st, {}, nodeID) # {}

\* MATCH (n {id: $id}) RETURN n, the first record converted: the outcomes the call may
\* have, one per matching node
Neo4j_GetNode(st, nodeID) ==
    IF MatchNodes(st, {}, nodeID) = {}
    THEN {[node |-> NoCall, err |-> "node not found"]}
    ELSE {[node |-> g, err |-> ""] :
            g \in UNION {convertNeo4jNodeToGraphNode(n) : n \in MatchNodes(st, {}, nodeID)}}

\* the clauses GetNodesByType and GetRelationshipsByType append to RETURN, in the order
\* they append them
Pagination(limit, offset) ==
    (IF limit > 0 THEN <<[clause |-> "LIMIT", n |-> limit]>> ELSE <<>>)
    \o (IF offset > 0 THEN <<[clause |-> "SKIP", n |-> offset]>> ELSE <<>>)

RECURSIVE CypherReturn(_, _)
\* RETURN ... [SKIP n] [LIMIT n] on the rows matched: Cypher takes SKIP before LIMIT and
\* rejects the statement with the clauses the other way round
CypherReturn(rows, clauses) ==
    IF clauses = <<>> THEN [rows |-> rows, err |-> ""]
    ELSE IF Len(clauses) > 1 /\ clauses[1].clause = "LIMIT"
    THEN [rows |-> <<>>, err |-> "Neo.ClientError.Statement.SyntaxError"]
    ELSE IF clauses[1].clause = "SKIP"
    THEN CypherReturn(SubSeq(rows, clauses[1].n + 1, Len(rows)), Tail(clauses))
    ELSE CypherReturn(SubSeq(rows, 1, IF clauses[1].n < Len(rows) THEN clauses[1].n
                                      ELSE Len(rows)),
                      Tail(clauses))

\* the orders in which a MATCH without ORDER BY may list the entities S
Orderings(S) ==
    {q \in [1 .. Cardinality(S) -> S] : \A i, j \in 1 .. Cardinality(S) : q[i] = q[j] => i = j}

\* MATCH (n:T) RETURN n with the pagination clauses, on the rows in the order `rows`
Neo4j_GetNodesByType(rows, limit, offset) ==
    LET r == CypherReturn(rows, Pagination(limit, offset))
    IN  IF r.err # "" THEN [nodes |-> <<>>, err |-> "failed to get nodes by type"]
        ELSE [nodes |-> r.rows, err |-> ""]

\* MATCH (s)-[r:T]->(t) RETURN s, r, t with the pagination clauses
Neo4j_GetRelationshipsByType(rows, limit, offset) ==
    LET r == CypherReturn(rows, Pagination(limit, offset))
    IN  IF r.err # "" THEN [relationships |-> <<>>, err |-> "failed to get relationships by type"]
        ELSE [relationships |-> r.rows, err |-> ""]

\* the graph the read operations show: the nodes as (ID, Type, properties), with every
\* Type a node may be given, and the relationships as triples of IDs and type
ObservedNodes(st) == UNION {convertNeo4jNodeToGraphNode(n) : n \in st.nodes}

ObservedTriples(st) ==
    UNION {{<<g.ID, r.type, h.ID>> :
               g \in convertNeo4jNodeToGraphNode(NodeView(st, r.src)),
               h \in convertNeo4jNodeToGraphNode(NodeView(st, r.tgt))} : r \in st.rels}

(***************************************************************************)
(* ReadSpec: two stores, one with base entity labelling and one without,   *)
(* given the same calls from the empty database, and the paginated reads   *)
(***************************************************************************)
MaxReadWrites == 2

Limits == 0 .. 2

Offsets == 0 .. 1

ReadInit ==
    /\ rd = [pc |-> "ready", on |-> EmptyStore, off |-> EmptyStore, n |-> 0, last |-> NoCall]
    /\ cl = NoClone
    /\ fp = NoProperty
    /\ sm = NoSchemaMaps
    /\ qc = NoQuery
    /\ san = NoValue
    /\ js = NoJSON
    /\ DocIdle
    /\ StoreIdle
    /\ SchemaIdle
    /\ TxIdle

ReadIdle == UNCHANGED <<cl, fp, sm, qc, san, js, docVars, storeVars, schemaVars, txVars>>

\* the same write on both stores
Written(call, on, off) ==
    /\ rd.n < MaxReadWrites
    /\ rd' = [rd EXCEPT !.on = on.st, !.off = off.st, !.n = @ + 1,
                        !.last = call @@ [errOn |-> on.err, errOff |-> off.err]]
    /\ ReadIdle

Both_AddNodes ==
    \E nodes \in {<<n>> : n \in {NodeOf("1", "Person", PropsA1), NodeOf("1", "Company", PropsA2),
                                 NodeOf("2", "Person", EmptyProps)}},
       mode \in MergeModes :
        Written([op |-> "AddNodes", nodes |-> nodes, mode |-> mode],
                Neo4j_AddNodes(rd.on, TRUE, nodes, mode, 0),
                Neo4j_AddNodes(rd.off, FALSE, nodes, mode, 0))

Both_AddRelationships ==
    \E rels \in {<<r>> : r \in StoreRelInputs}, mode \in {MergeModeCreate, MergeModeUpsert} :
        Written([op |-> "AddRelationships", rels |-> rels, mode |-> mode],
                Neo4j_AddRelationships(rd.on, rels, mode, 0),
                Neo4j_AddRelationships(rd.off, rels, mode, 0))

Both_AddGraphDocument ==
    \E doc \in ImportDocs :
        Written([op |-> "AddGraphDocument", docs |-> <<doc>>],
                Neo4j_AddGraphDocument(rd.on, TRUE, <<doc>>, MergeModeUpsert, FALSE,
                                       DefaultBatchSize, 0),
                Neo4j_AddGraphDocument(rd.off, FALSE, <<doc>>, MergeModeUpsert, FALSE,
                                       DefaultBatchSize, 0))

\* a read of one of the stores; full is the unpaginated result in the same order
Read(call, full, res) ==
    /\ rd' = [rd EXCEPT !.last = call @@ [full |-> full, res |-> res]]
    /\ ReadIdle

Read_GetNodesByType ==
    \E side \in {"on", "off"}, nodeType \in Types, limit \in Limits, offset \in Offsets :
        \E rows \in Orderings({n \in rd[side].nodes : nodeType \in n.labels}) :
            Read([op |-> "GetNodesByType", limit |-> limit, offset |-> offset],
                 rows, Neo4j_GetNodesByType(rows, limit, offset))

Read_GetRelationshipsByType ==
    \E side \in {"on", "off"}, relType \in RelTypes, limit \in Limits, offset \in Offsets :
        \E rows \in Orderings({r \in rd[side].rels : r.type = relType}) :
            Read([op |-> "GetRelationshipsByType", limit |-> limit, offset |-> offset],
                 rows, Neo4j_GetRelationshipsByType(rows, limit, offset))

ReadNext ==
    \/ Both_AddNodes
    \/ Both_AddRelationships
    \/ Both_AddGraphDocument
    \/ Read_GetNodesByType
    \/ Read_GetRelationshipsByType

ReadSpec == ReadInit /\ [][ReadNext]_vars

\* C32 as stated: for every sequence of AddGraphDocument / AddNodes / AddRelationships
\* calls, the graph observed through the read operations (the set of (ID, Type,
\* properties) nodes and of relationship triples) is the same with the base-entity
\* option on as with it off.
C32_AsStated ==
    /\ ObservedNodes(rd.on) = ObservedNodes(rd.off)
    /\ ObservedTriples(rd.on) = ObservedTriples(rd.off)

\* C35 as stated: with Limit = L > 0 and Offset = O > 0, GetNodesByType and
\* GetRelationshipsByType succeed and return the entities at positions O+1 .. O+L of the
\* unpaginated result.
C35_AsStated ==
    (/\ rd.last.op \in {"GetNodesByType", "GetRelationshipsByType"}
     /\ rd.last.limit > 0
     /\ rd.last.offset > 0)
        => LET full == rd.last.full
               upTo == IF rd.last.offset + rd.last.limit < Len(full)
                       THEN rd.last.offset + rd.last.limit ELSE Len(full)
               got == IF rd.last.op = "GetNodesByType" THEN rd.last.res.nodes
                      ELSE rd.last.res.relationships
           IN  /\ rd.last.res.err = ""
               /\ got = SubSeq(full, rd.last.offset + 1, upTo)

\* C36 as stated: after AddNodes returns without error for a node with ID i in any merge
\* mode (Create, Update on an existing node, Upsert, Replace) and any input property map,
\* NodeExists(i) is true and GetNode(i) returns a node whose ID is i.
C36_AsStated ==
    (stLast.op = "AddNodes" /\ stLast.err = "") =>
        \A k \in 1 .. Len(stLast.nodes) :
            LET node == stLast.nodes[k]
            IN  (stLast.mode = MergeModeUpdate
                    => MatchNodes(stLast.pre, {node.Type}, node.ID) # {})
                => /\ Neo4j_NodeExists(store, node.ID)
                   /\ \A got \in Neo4j_GetNode(store, node.ID) :
                         got.err = "" /\ got.node.ID = node.ID

(***************************************************************************)
(* FormatSpec: formatEnhancedProperty on one property of the enhanced      *)
(* schema, as enhancedSchemaCypher would report it                         *)
(***************************************************************************)
MaxValues == 2

ValueTexts == {"Alice", "Bob", "Line 1\nLine 2\rLine 3"}

\* the lists of collected values: none, up to MaxValues texts, and the first
\* DISTINCT_VALUE_LIMIT of more
CollectedValues ==
    {vs \in SeqsUpTo(ValueTexts, MaxValues) :
        \A i, j \in 1 .. Len(vs) : vs[i] = vs[j] => i = j}
    \cup {[i \in 1 .. DISTINCT_VALUE_LIMIT |-> "v" \o ToString(i)]}

\* Go int, or int64 as the driver decodes an integer
IntTypes == {"int", "int64"}

\* {values, distinct_count} of an exhaustive scan (the count is the number of distinct
\* values, of which values holds the first DISTINCT_VALUE_LIMIT), {values} of a sample,
\* or no details
StringProperties ==
    {[property |-> "name", type |-> "STRING"]}
    \cup {[property |-> "name", type |-> "STRING", values |-> vs] : vs \in CollectedValues}
    \cup {[property |-> "name", type |-> "STRING", values |-> x[1], distinct_count |-> x[2],
           ints |-> t] :
            x \in {y \in CollectedValues \X (1 .. DISTINCT_VALUE_LIMIT + 1) :
                      IF Len(y[1]) < DISTINCT_VALUE_LIMIT THEN y[2] = Len(y[1])
                      ELSE y[2] >= Len(y[1])},
            t \in IntTypes}

ListSizes == {0, 1, LIST_LIMIT - 1, LIST_LIMIT, LIST_LIMIT + 1}

\* {min_size, max_size}
ListProperties ==
    {[property |-> "tags", type |-> "LIST"]}
    \cup {[property |-> "tags", type |-> "LIST", min_size |-> lo, max_size |-> hi, ints |-> t] :
            lo \in ListSizes, hi \in ListSizes, t \in IntTypes}

FormatInputs == StringProperties \cup ListProperties

FormatInit ==
    /\ fp \in {[pc |-> "property", propMap |-> p] : p \in FormatInputs}
    /\ cl = NoClone
    /\ rd = NoStoreRead
    /\ sm = NoSchemaMaps
    /\ qc = NoQuery
    /\ san = NoValue
    /\ js = NoJSON
    /\ DocIdle
    /\ StoreIdle
    /\ SchemaIdle
    /\ TxIdle

formatEnhancedProperty_Call ==
    /\ fp.pc = "property"
    /\ fp' = [pc |-> "formatted", propMap |-> fp.propMap,
              line |-> formatEnhancedProperty(fp.propMap)]
    /\ UNCHANGED <<cl, rd, sm, qc, san, js, docVars, storeVars, schemaVars, txVars>>

FormatNext == formatEnhancedProperty_Call

FormatSpec == FormatInit /\ [][FormatNext]_vars

\* C33 as stated: for every size s, a LIST property whose reported min_size and max_size
\* are both s (as Go ints) produces no line in the enhanced rendering if and only if
\* valueSanitize drops a sequence of length s; the threshold is LIST_LIMIT = 128 and the
\* boundary s = 128 is included.
C33_AsStated ==
    (/\ fp.pc = "formatted"
     /\ fp.propMap.type = "LIST"
     /\ "min_size" \in DOMAIN fp.propMap
     /\ fp.propMap.ints = "int"
     /\ fp.propMap.min_size = fp.propMap.max_size)
        => (fp.line = "" <=> valueSanitize(Repeat(fp.propMap.min_size, Scalar("1"))) = Nil)

\* C34 as stated: a STRING property with a non-empty list of collected values is rendered
\* with one example, the first value, if its distinct count exceeds DISTINCT_VALUE_LIMIT
\* (10), and otherwise (count <= 10, or values without a distinct count) with all the
\* collected values; never without a value annotation.
C34_AsStated ==
    (/\ fp.pc = "formatted"
     /\ fp.propMap.type = "STRING"
     /\ "values" \in DOMAIN fp.propMap
     /\ Len(fp.propMap.values) > 0)
        => LET p == fp.propMap
               head == "<backtick>" \o p.property \o "<backtick>: " \o p.type
               values == [i \in 1 .. Len(p.values) |-> cleanStringValues(p.values[i])]
           IN  IF "distinct_count" \in DOMAIN p /\ p.distinct_count > DISTINCT_VALUE_LIMIT
               THEN fp.line = head \o " Example: \"" \o values[1] \o "\""
               ELSE fp.line = head \o " Available options: [" \o Join(values, " ") \o "]"

(***************************************************************************)
(* SchemaMapSpec.  GetStructuredSchema returns n.structuredSchema, a Go    *)
(* map and so a reference: the caller and the store then hold the same     *)
(* map.  The maps are on a heap (a sequence; the address is the index);    *)
(* RefreshSchema fills a map of its own and assigns it at the end.         *)
(***************************************************************************)
MaxSchemaRefreshes == 3
MaxHeld == 2

EmptySchemaMap == [k \in {} |-> <<>>]

\* a RefreshSchema that empties the map the store holds and fills that one
RefreshSchema_make_InPlace(heap, current) ==
    [heap |-> [heap EXCEPT ![current] = EmptySchemaMap], addr |-> current]

\* structuredSchema := make(map[string]interface{})
RefreshSchema_make(heap, current) ==
    [heap |-> Append(heap, EmptySchemaMap), addr |-> Len(heap) + 1]

\* m[key] = value for each key of entries
Assign(m, entries) ==
    [k \in DOMAIN m \cup DOMAIN entries |-> IF k \in DOMAIN entries THEN entries[k] ELSE m[k]]

\* structuredSchema: make(map[string]interface{}) of newNeo4j
SchemaMapInit ==
    /\ sm = [pc |-> "idle", heap |-> <<EmptySchemaMap>>, current |-> 1, local |-> 0,
             calls |-> 0, held |-> <<>>, err |-> "", db |-> <<>>]
    /\ cl = NoClone
    /\ rd = NoStoreRead
    /\ fp = NoProperty
    /\ qc = NoQuery
    /\ san = NoValue
    /\ js = NoJSON
    /\ DocIdle
    /\ StoreIdle
    /\ SchemaIdle
    /\ TxIdle

SchemaMapIdle == UNCHANGED <<cl, rd, fp, qc, san, js, docVars, storeVars, schemaVars, txVars>>

\* n.schemaMux.Lock()
SchemaMap_Lock ==
    /\ sm.pc = "idle"
    /\ sm.calls < MaxSchemaRefreshes
    /\ sm' = [sm EXCEPT !.pc = "locked", !.calls = @ + 1, !.err = ""]
    /\ SchemaMapIdle

\* the three metadata queries: an error returns (the deferred Unlock), their results go
\* on to the map the call makes
SchemaMap_Queries ==
    /\ sm.pc = "locked"
    /\ \/ /\ sm' = [sm EXCEPT !.pc = "idle", !.err = "failed to query node properties"]
          /\ SchemaMapIdle
       \/ \E d \in DbSchemas :
             LET made == RefreshSchema_make(sm.heap, sm.current)
             IN  /\ sm' = [sm EXCEPT !.pc = "made", !.heap = made.heap, !.local = made.addr,
                                     !.db = d]
                 /\ SchemaMapIdle

\* structuredSchema["node_props"] = nodeProps and the two assignments after it
SchemaMap_Assign ==
    /\ sm.pc = "made"
    /\ sm' = [sm EXCEPT !.pc = "metadata",
                        !.heap[sm.local] =
                            Assign(@, [node_props |-> RecordsToMap(sm.db.nodes, "labels"),
                                       rel_props |-> RecordsToMap(sm.db.relProps, "type"),
                                       relationships |-> sm.db.rels])]
    /\ SchemaMapIdle

\* structuredSchema["metadata"] = metadata
SchemaMap_Metadata ==
    /\ sm.pc = "metadata"
    /\ \E constraints \in {"ok", "error"}, indexes \in {"ok", "apoc"} :
          sm' = [sm EXCEPT !.pc = "assign",
                           !.heap[sm.local] =
                               Assign(@, [metadata |-> Metadata(constraints, indexes, sm.db)])]
    /\ SchemaMapIdle

\* n.structuredSchema = structuredSchema, and the deferred Unlock
SchemaMap_Install ==
    /\ sm.pc = "assign"
    /\ sm' = [sm EXCEPT !.pc = "idle", !.current = sm.local, !.local = 0]
    /\ SchemaMapIdle

\* GetStructuredSchema under RLock, which a refresh in progress holds back: the caller
\* keeps the map; content is what it held when returned
SchemaMap_Get ==
    /\ sm.pc = "idle"
    /\ Len(sm.held) < MaxHeld
    /\ sm' = [sm EXCEPT !.held = Append(@, [addr |-> sm.current,
                                            content |-> sm.heap[sm.current]])]
    /\ SchemaMapIdle

SchemaMapNext ==
    \/ SchemaMap_Lock
    \/ SchemaMap_Queries
    \/ SchemaMap_Assign
    \/ SchemaMap_Metadata
    \/ SchemaMap_Install
    \/ SchemaMap_Get

SchemaMapSpec == SchemaMapInit /\ [][SchemaMapNext]_vars

\* C39: a structured schema map obtained from GetStructuredSchema() is never modified
\* afterwards: a later RefreshSchema, successful or failed, at any point of its run,
\* fills and installs a map of its own and leaves the content of every map returned
\* before as it was.
C39_ReturnedMapsUnchanged ==
    \A i \in 1 .. Len(sm.held) : sm.heap[sm.held[i].addr] = sm.held[i].content

\* a map with content was returned, a refresh then installed another with other content,
\* one more failed, and the caller still holds the first
C39_Witness ==
    /\ sm.pc = "idle"
    /\ sm.err # ""
    /\ sm.held # <<>>
    /\ sm.held[1].content # EmptySchemaMap
    /\ sm.held[1].addr # sm.current
    /\ sm.heap[sm.current] # sm.held[1].content

====
